---------------------------- MODULE Spec2Model ----------------------------
(***************************************************************************)
(* Behavioural model of mcp-bsl-lsp-bridge.                                *)
(*                                                                         *)
(* The bridge process (session client, status, readiness gate, warm-up)    *)
(* and the session daemon are separate programs, and inside the bridge the *)
(* session client and the gate share no state, so each component is        *)
(* modelled against an abstract peer and checked under a specification of  *)
(* its own:                                                                *)
(*   SpecClient  - lsp.SessionClient (src/lsp/session_client.go)           *)
(*   SpecDaemon  - SessionManager of the daemon (src/unnamed/part_017)     *)
(*   SpecSession - both ends of a session: the behaviours of SpecClient    *)
(*                 and those of SpecDaemon                                 *)
(*   SpecStatus  - BuildLSPStatus (src/unnamed/part_010)                   *)
(*   SpecBridge  - CheckReadyOrReturn (src/unnamed/part_010) and the       *)
(*                 warm-up state machine (src/bridge/auto_connect.go)      *)
(*   SpecGraph   - the call_graph tool                                     *)
(*                 (src/mcpserver/tools/range_formatting.go)               *)
(*   SpecPath    - DockerPathMapper (src/utils/pathmap.go) and the file    *)
(*                 URI conversions (src/unnamed/part_004)                  *)
(*   SpecHandler - ClientHandler.Handle (src/lsp/handler.go)               *)
(*   SpecProgress - ProgressTracker.Update (src/lsp/progress.go)           *)
(*   SpecApi     - the daemon's handleAPIRequest, one method per client    *)
(*   SpecChild   - the daemon reading the messages of its child            *)
(*                 (readResponses, src/unnamed/part_017)                   *)
(*   SpecStart   - the start of the daemon: initialize, then Listen        *)
(*                 (src/unnamed/part_017)                                  *)
(*   SpecConnect - ConnectTCP and ConnectWebSocket of a language client    *)
(*                 (src/unnamed/part_006, src/unnamed/part_007)            *)
(*   SpecGraphFair - the call_graph tool with every goroutine scheduled    *)
(* The variable "component" records which component a behaviour is about;  *)
(* the variables of the other components keep their initial values.        *)
(***************************************************************************)
EXTENDS Integers, Sequences, FiniteSets, TLC

(* ------------------------------ bounds -------------------------------- *)
\* Number of concurrent callers of SessionClient.Call (each makes one Call).
NCalls == 2
\* Number of TCP connections the daemon side accepts over a behaviour.
MaxConns == 2
\* Number of API connections of the daemon, each with its HandleClient.
NHandlers == 2
\* Number of API requests one connection sends.
MaxReqs == 2
\* Number of document URIs.
NUris == 2
\* Number of language servers the bridge may hold a client for.
MaxClients == 2
\* Largest number of active progress tokens of one client.
MaxActive == 1
\* Largest number of sleeps of the gate's polling loop (2 s / 200 ms in the code).
MaxPolls == 2
\* Last instant of the clock, in seconds.
MaxClock == 12
\* Seconds between two instants at which the clock is read.
TickSeconds == 5
\* Largest number of calls of one symbol in a call hierarchy.
MaxFan == 7
\* Largest number of segments of a path after its root.
MaxSegs == 3
\* Number of messages the language server sends to the client handler.
MaxMsgs == 2
\* Largest id an API client gives a request.
MaxApiId == 2
\* Number of $/progress updates the progress tracker is given.
MaxUpdates == 3
\* Number of requests the LSP child sends to the session daemon.
MaxServerReqs == 2

(* ----------------------------- constants ------------------------------ *)
\* auto_connect.go:117: StartWarmup is throttled to one attempt per 10 s.
WarmupThrottle == 10
\* auto_connect.go:39: StartAutoConnect is throttled to one attempt per 5 s.
AutoConnectThrottle == 5
\* range_formatting.go:134-136: defaults of the call_graph tool.
DefaultDepthUp == 5
DefaultDepthDown == 5
DefaultMaxNodes == 100
\* range_formatting.go:484,619: capacity of the semaphore of one expansion.
SemaphoreWidth == 5
\* part_017:428 and 436: the codes HandleClient gives sendAPIError.
\* The timeout of the initialize request, in seconds.
InitializeTimeout == 60
\* maxConnectionAttempts of a TCP or WebSocket client.
MaxConnectionAttempts == 5
CodeParseError == -32700
CodeInternalError == -32603
\* handler.go:100: jsonrpc2.CodeMethodNotFound.
CodeMethodNotFound == -32601

Calls == 1..NCalls
Conns == 1..MaxConns
\* A reader goroutine is named after the connection whose dial spawned it.
Readers == Conns
Handlers == 1..NHandlers
Uris == 1..NUris
\* Server keys, numbered in their sorted order.
Servers == 1..MaxClients

VARIABLES
    component,      \* which component this behaviour observes
    \* ---- SessionClient fields (session_client.go:22-32)
    scConn,         \* sc.conn: 0 is nil, else a connection
    scReader,       \* sc.reader: 0 is nil, else the connection it reads
    scReqID,        \* sc.reqID
    scPending,      \* sc.pending: id -> the call owning the channel
    scClosed,       \* sc.closed
    scMu,           \* sc.mu: 0 is unlocked, else the reader holding it while blocked
    \* ---- one Call per caller
    callPc, callId, callConn, callNew, callOut, callGot,
    respCh,         \* respCh of each call: a channel of capacity 1
    \* ---- readResponses goroutines
    rdPc, rdReader, rdTodo, rdCur, rdNew,
    \* ---- Connect()
    connectPc,
    \* ---- the TCP connections and the daemon behind them
    connState,      \* "unused" | "open" | "broken" (peer gone) | "closed" (closed locally)
    reqs,           \* requests the daemon has received and not yet answered
    inbox,          \* reply lines on their way to the client
    dropped,        \* ids of the reply lines readResponses found no pending entry for
    \* ---- SessionManager fields (part_017:92-114)
    openDocs,       \* sm.openDocs: the set of URIs mapped to true
    requestID,      \* sm.requestID
    pending,        \* sm.pending: id -> the handler whose sendRequest owns the channel
    \* ---- the LSP child
    childAlive,     \* the child runs and its stdin accepts writes
    childReqs,      \* requests written to the child and not yet answered
    childNote,      \* per URI, the last didOpen/didClose notification written
    openWrites,     \* per URI, the number of didOpen notifications written
    \* ---- one HandleClient goroutine per API connection
    hPc, hMethod, hUri, hId, hOut, hCount, hGot,
    hResp,          \* respCh of the handler's sendRequest: capacity 1
    hPayload,       \* what the value on respCh is: the result or the marshalled error
    hReq,           \* req of HandleClient: the id and the method of the request read
    hSent,          \* the response line written for it to the connection, if any
    apiClients,     \* the methods and the ids the API clients use, and whether
                    \* they send lines that are no JSON
    \* ---- history of the API requests
    closeSeen,      \* per URI, a didClose request has been handled
    firstOpens,     \* per URI, the didOpen requests that found the URI not open
    openAnswered,   \* per URI, the didOpen requests answered
    lateIds,        \* ids of the child's responses that found no pending entry
    \* ---- MCPLSPBridge (part_001:14-43)
    clients,        \* b.clients: server -> client
    bridgeKind,     \* "concrete" (*MCPLSPBridge) or "other" implementation
    warmupRunning, warmupDone, warmupErr,
    warmupLastAttempt,  \* 0 is the zero time
    clock,          \* time.Now(), in seconds
    activeRuns,     \* runWarmup executions in progress
    statusOut,      \* the status the lsp_status tool computed
    \* ---- one tool call in CheckReadyOrReturn
    gPc, gOut, gRetry, gPolls,
    \* ---- callGraphBuilder (range_formatting.go:350-357) and its request
    hierarchy,      \* symbol -> the symbols it calls, as the server reports
    depthUp, depthDown, maxNodes,
    visited,        \* b.visited: the keys marked
    nodeCount, cyclesFound, truncated, truncateReason,
    maxDepthUp, maxDepthDown,
    ctxDone,        \* the timeout context is done
    tasks,          \* the goroutines of the builder
    cutCauses,      \* history: the causes for which an expansion was cut off
    returned,       \* the tool has built its result
    \* ---- DockerPathMapper and the conversions applied to one input
    dpm,            \* the mapper: hostRoot and containerRoot
    pathIn,         \* the input string
    pathOp,         \* the function called on the input
    pathPc,         \* the number of calls made
    pathMid,        \* the result of the call on the input
    pathEnd,        \* the result of the call on that result
    \* ---- ClientHandler and its jsonrpc2 connection
    received,       \* the server's messages Handle was called for
    replies,        \* the replies Handle sent on the connection
    progressUpdates,    \* the calls of ProgressTracker.Update
    panicked,       \* Handle panicked
    \* ---- auto-connect of MCPLSPBridge (part_001:24-26, 35)
    autoConnectMu,  \* "free", or "sync" while SyncAutoConnect holds the mutex
    autoConnectLastAttempt,     \* 0 is the zero time
    connectTasks,   \* goroutines of StartAutoConnect that have not yet returned
    syncPc,         \* the caller of SyncAutoConnect: "idle" or "connecting"
    warmupFinishedAt,   \* 0 is the zero time
    \* ---- ProgressTracker (progress.go:33-37) and the updates it was given
    active,         \* pt.active: token key -> the event kept for it
    last,           \* pt.last: the event last seen, or NoEvent for nil
    updates,        \* history: the parameters of the Update calls, in order
    \* ---- the requests of the LSP child to the session daemon
    srvRequests,    \* the requests readResponses has read and dealt with
    srvReplies,     \* the replies to them written to the child's stdin
    \* ---- the start of the session daemon: main and Start (part_017:39-240)
    startPc,        \* where main is
    startChild,     \* the LSP child: "none", "running" or "exited"
    childGot,       \* the methods of the messages written to the child
    childAnswer,    \* history: how the child answered initialize, if it did
    startPending,   \* sm.pending holds the channel of the initialize request
    initCh,         \* that channel: capacity 1
    elapsed,        \* seconds since the initialize request was sent
    smInitialized,  \* sm.initialized
    smInitResult,   \* sm.initResult: "none" is nil
    smCapabilities, \* sm.capabilities: "none" is nil
    accepted,       \* API connections accepted, each served by a HandleClient
    \* ---- a LanguageClient connecting over TCP or WebSocket (part_006, part_007)
    transport,      \* "tcp" or "ws"
    lcPc,           \* where ConnectTCP / ConnectWebSocket is
    attempt,        \* attempt of its dial loop
    stream,         \* the carrier: "none", "alive" or "disconnected"
    monPc,          \* the monitor goroutine: "none", "waiting" or "done"
    lcStatus        \* lc.status

clientVars == <<scConn, scReader, scReqID, scPending, scClosed, scMu,
                callPc, callId, callConn, callNew, callOut, callGot, respCh,
                rdPc, rdReader, rdTodo, rdCur, rdNew,
                connectPc, connState, reqs, inbox, dropped>>

daemonVars == <<openDocs, requestID, pending, childAlive, childReqs, childNote,
                openWrites, hPc, hMethod, hUri, hId, hOut, hCount, hGot, hResp,
                hPayload, hReq, hSent, apiClients,
                closeSeen, firstOpens, openAnswered, lateIds>>

bridgeVars == <<clients, bridgeKind, warmupRunning, warmupDone, warmupErr,
                warmupLastAttempt, clock, activeRuns, statusOut,
                gPc, gOut, gRetry, gPolls>>

graphVars == <<hierarchy, depthUp, depthDown, maxNodes, visited, nodeCount,
               cyclesFound, truncated, truncateReason, maxDepthUp,
               maxDepthDown, ctxDone, tasks, cutCauses, returned>>

pathVars == <<dpm, pathIn, pathOp, pathPc, pathMid, pathEnd>>

handlerVars == <<received, replies, progressUpdates, panicked>>

\* The variables of the session client, the daemon and the bridge.
coreVars == <<clientVars, daemonVars, bridgeVars>>
\* The variables of the tools' components.
toolVars == <<graphVars, pathVars, handlerVars>>

\* The auto-connect of the bridge.
autoVars == <<autoConnectMu, autoConnectLastAttempt, connectTasks, syncPc,
              warmupFinishedAt>>
\* The variables of the bridge's and the daemon's services.
\* The progress tracker of a language client.
progressVars == <<active, last, updates>>

\* The traffic the LSP child originates.
lifeVars == <<srvRequests, srvReplies>>

\* The start of the session daemon.
startVars == <<startPc, startChild, childGot, childAnswer, startPending, initCh,
               elapsed, smInitialized, smInitResult, smCapabilities, accepted>>

\* A language client connecting over TCP or WebSocket.
connectVars == <<transport, lcPc, attempt, stream, monPc, lcStatus>>

serviceVars == <<autoVars, progressVars, lifeVars, startVars, connectVars>>

vars == <<component, clientVars, daemonVars, bridgeVars, toolVars, serviceVars>>

(* ------------------------- SessionClient ------------------------------ *)

\* NewSessionClient: no connection, empty pending map, not closed.
InitClientVars ==
    /\ scConn = 0 /\ scReader = 0 /\ scReqID = 0
    /\ scPending = <<>>
    /\ scClosed = FALSE /\ scMu = 0
    /\ callPc = [c \in Calls |-> "idle"]
    /\ callId = [c \in Calls |-> 0]
    /\ callConn = [c \in Calls |-> 0]
    /\ callNew = [c \in Calls |-> 0]
    /\ callOut = [c \in Calls |-> "none"]
    /\ callGot = [c \in Calls |-> 0]
    /\ respCh = [c \in Calls |-> <<>>]
    /\ rdPc = [r \in Readers |-> "none"]
    /\ rdReader = [r \in Readers |-> 0]
    /\ rdTodo = [r \in Readers |-> {}]
    /\ rdCur = [r \in Readers |-> 0]
    /\ rdNew = [r \in Readers |-> 0]
    /\ connectPc = "idle"
    /\ connState = [k \in Conns |-> "unused"]
    /\ reqs = [k \in Conns |-> <<>>]
    /\ inbox = [k \in Conns |-> <<>>]
    /\ dropped = {}

\* net.DialTimeout succeeding yields a fresh connection.
CanDial == \E k \in Conns : connState[k] = "unused"
FreshConn == CHOOSE k \in Conns : connState[k] = "unused" /\ \A j \in Conns : connState[j] = "unused" => k <= j

\* map insert: sc.pending[id] = respCh
MapPut(m, k, v) == [x \in (DOMAIN m) \cup {k} |-> IF x = k THEN v ELSE m[x]]
\* delete(sc.pending, id)
MapDel(m, k) == [x \in (DOMAIN m) \ {k} |-> m[x]]

\* A faulty id source that hands out the same id again: what C2 must exclude.
ReusedReqID(cur) == 1

\* atomic.AddInt64(&sc.reqID, 1)
NextReqID(cur) == cur + 1

\* The message failAllPending sends: code -32000, "connection lost: ...".
LostMsg == [kind |-> "lost", id |-> 0, for |-> 0]
ReplyMsg(line) == [kind |-> "reply", id |-> line.id, for |-> line.for]

\* Call, lines 363-371: with the mutex held, fail if there is no connection,
\* else take the next id and register a fresh buffered channel for it.
Register(c) ==
    IF scConn = 0
    THEN /\ callPc' = [callPc EXCEPT ![c] = "done"]
         /\ callOut' = [callOut EXCEPT ![c] = "notconnected"]
         /\ UNCHANGED <<scReqID, scPending, callId, respCh>>
    ELSE /\ scReqID' = NextReqID(scReqID)
         /\ callId' = [callId EXCEPT ![c] = scReqID']
         /\ scPending' = MapPut(scPending, scReqID', c)
         /\ respCh' = [respCh EXCEPT ![c] = <<>>]
         /\ callPc' = [callPc EXCEPT ![c] = "getconn"]
         /\ UNCHANGED callOut

\* Call, lines 352-371: the first critical section.
CallBegin(c) ==
    /\ component = "client"
    /\ connectPc = "ok"
    /\ callPc[c] = "idle" /\ scMu = 0
    /\ IF scConn = 0 /\ ~scClosed
       THEN /\ callPc' = [callPc EXCEPT ![c] = "reconnect"]
            /\ UNCHANGED <<scReqID, scPending, callId, respCh, callOut>>
       ELSE Register(c)
    /\ UNCHANGED <<component, toolVars, serviceVars, daemonVars, bridgeVars, dropped, scConn, scReader, scClosed, scMu, callConn, callNew, callGot,
                   rdPc, rdReader, rdTodo, rdCur, rdNew,
                   connectPc, connState, reqs, inbox>>

\* conn.Close() on connection k: what the daemon had still to answer on it,
\* and what was still to be read from it, is gone.
Dropped(q, k) == [j \in Conns |-> IF j = k THEN <<>> ELSE q[j]]

\* reconnect, lines 503-510: with the mutex held, close and forget the
\* current connection.
ReconnectClose ==
    IF scConn # 0
    THEN /\ connState' = [connState EXCEPT ![scConn] = "closed"]
         /\ reqs' = Dropped(reqs, scConn)
         /\ inbox' = Dropped(inbox, scConn)
         /\ scConn' = 0 /\ scReader' = 0
    ELSE UNCHANGED <<connState, scConn, scReader, reqs, inbox>>

\* reconnect, lines 503-530, run by a Call: drop the current connection, then
\* the dial loop (which touches no client state) succeeds or gives up.
CallReconnect(c) ==
    /\ component = "client"
    /\ callPc[c] = "reconnect" /\ scMu = 0
    /\ \/ /\ CanDial
          /\ IF scConn # 0
             THEN /\ connState' = [connState EXCEPT ![scConn] = "closed", ![FreshConn] = "open"]
                  /\ reqs' = Dropped(reqs, scConn)
                  /\ inbox' = Dropped(inbox, scConn)
                  /\ scConn' = 0 /\ scReader' = 0
             ELSE /\ connState' = [connState EXCEPT ![FreshConn] = "open"]
                  /\ UNCHANGED <<scConn, scReader, reqs, inbox>>
          /\ callNew' = [callNew EXCEPT ![c] = FreshConn]
          /\ callPc' = [callPc EXCEPT ![c] = "rcInstall"]
          /\ UNCHANGED callOut
       \/ /\ ReconnectClose
          /\ callPc' = [callPc EXCEPT ![c] = "done"]
          /\ callOut' = [callOut EXCEPT ![c] = "reconnectfailed"]
          /\ UNCHANGED callNew
    /\ UNCHANGED <<component, toolVars, serviceVars, daemonVars, bridgeVars, dropped, scReqID, scPending, scClosed, scMu,
                   callId, callConn, callGot, respCh,
                   rdPc, rdReader, rdTodo, rdCur, rdNew,
                   connectPc>>

\* reconnect, lines 532-535: install the dialled connection, whatever sc.closed says.
InstallConn(new) ==
    /\ scConn' = new
    /\ scReader' = new

\* reconnect's last critical section, then Call line 359: go sc.readResponses().
CallReconnectInstall(c) ==
    /\ component = "client"
    /\ callPc[c] = "rcInstall" /\ scMu = 0
    /\ InstallConn(callNew[c])
    /\ rdPc' = [rdPc EXCEPT ![callNew[c]] = "top"]
    /\ callNew' = [callNew EXCEPT ![c] = 0]
    /\ callPc' = [callPc EXCEPT ![c] = "register"]
    /\ UNCHANGED <<component, toolVars, serviceVars, daemonVars, bridgeVars, dropped, scReqID, scPending, scClosed, scMu, callId, callConn,
                   callOut, callGot, respCh, rdReader, rdTodo, rdCur, rdNew,
                   connectPc, connState, reqs, inbox>>

\* Call, lines 360-371, after a reconnect.
CallRegister(c) ==
    /\ component = "client"
    /\ callPc[c] = "register" /\ scMu = 0
    /\ Register(c)
    /\ UNCHANGED <<component, toolVars, serviceVars, daemonVars, bridgeVars, dropped, scConn, scReader, scClosed, scMu, callConn, callNew, callGot,
                   rdPc, rdReader, rdTodo, rdCur, rdNew,
                   connectPc, connState, reqs, inbox>>

\* Call, lines 393-399: read sc.conn under the mutex.
CallGetConn(c) ==
    /\ component = "client"
    /\ callPc[c] = "getconn" /\ scMu = 0
    /\ callConn' = [callConn EXCEPT ![c] = scConn]
    /\ IF scConn = 0
       THEN /\ callPc' = [callPc EXCEPT ![c] = "defer"]
            /\ callOut' = [callOut EXCEPT ![c] = "lostbeforesend"]
       ELSE /\ callPc' = [callPc EXCEPT ![c] = "write"]
            /\ UNCHANGED callOut
    /\ UNCHANGED <<component, toolVars, serviceVars, daemonVars, bridgeVars, dropped, scConn, scReader, scReqID, scPending, scClosed, scMu,
                   callId, callNew, callGot, respCh,
                   rdPc, rdReader, rdTodo, rdCur, rdNew,
                   connectPc, connState, reqs, inbox>>

\* Call, line 401: conn.Write. It succeeds on an open connection, fails on one
\* closed locally, and may do either once the peer is gone.
CallWrite(c) ==
    /\ component = "client"
    /\ callPc[c] = "write"
    /\ \/ /\ connState[callConn[c]] = "open"
          /\ reqs' = [reqs EXCEPT ![callConn[c]] = Append(@, [id |-> callId[c], for |-> c])]
          /\ callPc' = [callPc EXCEPT ![c] = "wait"]
       \/ /\ connState[callConn[c]] = "broken"
          /\ callPc' = [callPc EXCEPT ![c] = "wait"]
          /\ UNCHANGED reqs
       \/ /\ connState[callConn[c]] \in {"broken", "closed"}
          /\ callPc' = [callPc EXCEPT ![c] = "markbroken"]
          /\ UNCHANGED reqs
    /\ UNCHANGED <<component, toolVars, serviceVars, daemonVars, bridgeVars, dropped, scConn, scReader, scReqID, scPending, scClosed, scMu,
                   callId, callConn, callNew, callOut, callGot, respCh,
                   rdPc, rdReader, rdTodo, rdCur, rdNew,
                   connectPc, connState, inbox>>

\* Call, lines 402-409: a failed write marks the connection broken.
CallWriteFailed(c) ==
    /\ component = "client"
    /\ callPc[c] = "markbroken" /\ scMu = 0
    /\ scConn' = 0 /\ scReader' = 0
    /\ callPc' = [callPc EXCEPT ![c] = "defer"]
    /\ callOut' = [callOut EXCEPT ![c] = "sendfailed"]
    /\ UNCHANGED <<component, toolVars, serviceVars, daemonVars, bridgeVars, dropped, scReqID, scPending, scClosed, scMu,
                   callId, callConn, callNew, callGot, respCh,
                   rdPc, rdReader, rdTodo, rdCur, rdNew,
                   connectPc, connState, reqs, inbox>>

\* Call, lines 412-420: case resp := <-respCh.
CallReceive(c) ==
    /\ component = "client"
    /\ callPc[c] = "wait" /\ respCh[c] # <<>>
    /\ respCh' = [respCh EXCEPT ![c] = Tail(@)]
    /\ callOut' = [callOut EXCEPT ![c] = IF Head(respCh[c]).kind = "lost" THEN "connectionlost" ELSE "reply"]
    /\ callGot' = [callGot EXCEPT ![c] = Head(respCh[c]).for]
    /\ callPc' = [callPc EXCEPT ![c] = "defer"]
    /\ UNCHANGED <<component, toolVars, serviceVars, daemonVars, bridgeVars, dropped, scConn, scReader, scReqID, scPending, scClosed, scMu,
                   callId, callConn, callNew,
                   rdPc, rdReader, rdTodo, rdCur, rdNew,
                   connectPc, connState, reqs, inbox>>

\* Call, lines 421-422: case <-ctx.Done(). The deadline may elapse at any moment.
CallTimeout(c) ==
    /\ component = "client"
    /\ callPc[c] = "wait"
    /\ callOut' = [callOut EXCEPT ![c] = "timeout"]
    /\ callPc' = [callPc EXCEPT ![c] = "defer"]
    /\ UNCHANGED <<component, toolVars, serviceVars, daemonVars, bridgeVars, dropped, scConn, scReader, scReqID, scPending, scClosed, scMu,
                   callId, callConn, callNew, callGot, respCh,
                   rdPc, rdReader, rdTodo, rdCur, rdNew,
                   connectPc, connState, reqs, inbox>>

\* A faulty clean-up that forgets the entry when the deadline fired: what C3
\* must exclude.
DeleteUnlessTimeout(c) ==
    IF callOut[c] = "timeout" THEN scPending ELSE MapDel(scPending, callId[c])

\* Call, lines 373-377: the deferred delete(sc.pending, id).
DeferDelete(c) == MapDel(scPending, callId[c])

CallDefer(c) ==
    /\ component = "client"
    /\ callPc[c] = "defer" /\ scMu = 0
    /\ scPending' = DeferDelete(c)
    /\ callPc' = [callPc EXCEPT ![c] = "done"]
    /\ callConn' = [callConn EXCEPT ![c] = 0]
    /\ UNCHANGED <<component, toolVars, serviceVars, daemonVars, bridgeVars, dropped, scConn, scReader, scReqID, scClosed, scMu,
                   callId, callNew, callOut, callGot, respCh,
                   rdPc, rdReader, rdTodo, rdCur, rdNew,
                   connectPc, connState, reqs, inbox>>

(* ---------------------- readResponses goroutine ----------------------- *)

\* readResponses, lines 429-436: snapshot sc.reader and sc.closed.
ReaderTop(r) ==
    /\ component = "client"
    /\ rdPc[r] = "top" /\ scMu = 0
    /\ IF scReader = 0 \/ scClosed
       THEN /\ rdPc' = [rdPc EXCEPT ![r] = "exit"]
            /\ rdReader' = [rdReader EXCEPT ![r] = 0]
       ELSE /\ rdPc' = [rdPc EXCEPT ![r] = "read"]
            /\ rdReader' = [rdReader EXCEPT ![r] = scReader]
    /\ UNCHANGED <<component, toolVars, serviceVars, daemonVars, bridgeVars, dropped, scConn, scReader, scReqID, scPending, scClosed, scMu,
                   callPc, callId, callConn, callNew, callOut, callGot, respCh,
                   rdTodo, rdCur, rdNew,
                   connectPc, connState, reqs, inbox>>

\* readResponses, line 476: the channel a reply line is for, if any.
\* The result is the set of calls whose channel receives the line.
DeliverTarget(line) ==
    IF line.id \in DOMAIN scPending THEN {scPending[line.id]} ELSE {}

\* readResponses, lines 438 and 463-482: reader.ReadString returns a line;
\* with the mutex held the reply is sent on the channel registered for its
\* id, and a line with no pending entry is dropped. The send blocks, mutex
\* held, while the channel's one slot is taken.
ReaderDeliver(r) ==
    /\ component = "client"
    /\ rdPc[r] = "read" /\ scMu = 0
    /\ connState[rdReader[r]] # "closed"
    /\ inbox[rdReader[r]] # <<>>
    /\ LET line == Head(inbox[rdReader[r]])
           tgt == DeliverTarget(line) IN
       IF tgt = {}
       THEN /\ inbox' = [inbox EXCEPT ![rdReader[r]] = Tail(@)]
            /\ dropped' = dropped \cup {line.id}
            /\ rdPc' = [rdPc EXCEPT ![r] = "top"]
            /\ UNCHANGED <<respCh, scMu, rdCur>>
       ELSE \E c \in tgt :
            IF respCh[c] = <<>>
            THEN /\ respCh' = [respCh EXCEPT ![c] = <<ReplyMsg(line)>>]
                 /\ inbox' = [inbox EXCEPT ![rdReader[r]] = Tail(@)]
                 /\ rdPc' = [rdPc EXCEPT ![r] = "top"]
                 /\ UNCHANGED <<scMu, rdCur, dropped>>
            ELSE /\ scMu' = r
                 /\ rdCur' = [rdCur EXCEPT ![r] = c]
                 /\ rdPc' = [rdPc EXCEPT ![r] = "deliverBlocked"]
                 /\ UNCHANGED <<respCh, inbox, dropped>>
    /\ UNCHANGED <<component, toolVars, serviceVars, daemonVars, bridgeVars, scConn, scReader, scReqID, scPending, scClosed,
                   callPc, callId, callConn, callNew, callOut, callGot,
                   rdReader, rdTodo, rdNew,
                   connectPc, connState, reqs>>

\* readResponses, lines 477-482: the blocked send completes once the slot is free.
ReaderDeliverUnblock(r) ==
    /\ component = "client"
    /\ rdPc[r] = "deliverBlocked" /\ respCh[rdCur[r]] = <<>>
    /\ respCh' = [respCh EXCEPT ![rdCur[r]] = <<ReplyMsg(Head(inbox[rdReader[r]]))>>]
    /\ inbox' = [inbox EXCEPT ![rdReader[r]] = Tail(@)]
    /\ scMu' = 0
    /\ rdCur' = [rdCur EXCEPT ![r] = 0]
    /\ rdPc' = [rdPc EXCEPT ![r] = "top"]
    /\ UNCHANGED <<component, toolVars, serviceVars, daemonVars, bridgeVars, dropped, scConn, scReader, scReqID, scPending, scClosed,
                   callPc, callId, callConn, callNew, callOut, callGot,
                   rdReader, rdTodo, rdNew,
                   connectPc, connState, reqs>>

\* failAllPending, lines 488-491: the channels the loop will send on.
FailTargets == {scPending[i] : i \in DOMAIN scPending}

\* readResponses, lines 438-443, and failAllPending, lines 487-499:
\* reader.ReadString returns an error (the connection was closed locally, or
\* the peer is gone and nothing is buffered) and failAllPending takes the
\* mutex and sends on every pending channel, in map order (any order). With
\* every slot free the loop runs to its end; otherwise it sends on some of
\* the free channels and then blocks, mutex held, on a full one.
ReaderFail(r) ==
    /\ component = "client"
    /\ rdPc[r] = "read" /\ scMu = 0
    /\ \/ connState[rdReader[r]] = "closed"
       \/ connState[rdReader[r]] = "broken" /\ inbox[rdReader[r]] = <<>>
    /\ LET free == {c \in FailTargets : respCh[c] = <<>>}
           full == FailTargets \ free IN
       IF full = {}
       THEN /\ respCh' = [c \in Calls |-> IF c \in free THEN <<LostMsg>> ELSE respCh[c]]
            /\ rdPc' = [rdPc EXCEPT ![r] = "checkClosed"]
            /\ UNCHANGED <<scMu, rdTodo, rdCur>>
       ELSE \E served \in SUBSET free : \E b \in full :
            /\ respCh' = [c \in Calls |-> IF c \in served THEN <<LostMsg>> ELSE respCh[c]]
            /\ scMu' = r
            /\ rdTodo' = [rdTodo EXCEPT ![r] = FailTargets \ (served \cup {b})]
            /\ rdCur' = [rdCur EXCEPT ![r] = b]
            /\ rdPc' = [rdPc EXCEPT ![r] = "failBlocked"]
    /\ UNCHANGED <<component, toolVars, serviceVars, daemonVars, bridgeVars, dropped, scConn, scReader, scReqID, scPending, scClosed,
                   callPc, callId, callConn, callNew, callOut, callGot,
                   rdReader, rdNew,
                   connectPc, connState, reqs, inbox>>

\* failAllPending, lines 491-499: the blocked send completes once the slot is
\* free, and the loop goes on: to its end, or to the next full channel.
ReaderFailUnblock(r) ==
    /\ component = "client"
    /\ rdPc[r] = "failBlocked" /\ respCh[rdCur[r]] = <<>>
    /\ LET free == {c \in rdTodo[r] : respCh[c] = <<>>}
           full == rdTodo[r] \ free IN
       IF full = {}
       THEN /\ respCh' = [c \in Calls |-> IF c \in free \cup {rdCur[r]} THEN <<LostMsg>> ELSE respCh[c]]
            /\ scMu' = 0
            /\ rdTodo' = [rdTodo EXCEPT ![r] = {}]
            /\ rdCur' = [rdCur EXCEPT ![r] = 0]
            /\ rdPc' = [rdPc EXCEPT ![r] = "checkClosed"]
       ELSE \E served \in SUBSET free : \E b \in full :
            /\ respCh' = [c \in Calls |-> IF c \in served \cup {rdCur[r]} THEN <<LostMsg>> ELSE respCh[c]]
            /\ rdTodo' = [rdTodo EXCEPT ![r] = @ \ (served \cup {b})]
            /\ rdCur' = [rdCur EXCEPT ![r] = b]
            /\ UNCHANGED <<scMu, rdPc>>
    /\ UNCHANGED <<component, toolVars, serviceVars, daemonVars, bridgeVars, dropped, scConn, scReader, scReqID, scPending, scClosed,
                   callPc, callId, callConn, callNew, callOut, callGot,
                   rdReader, rdNew,
                   connectPc, connState, reqs, inbox>>

\* readResponses, lines 445-460, and reconnect, lines 503-530: if explicitly
\* closed the reader returns; else it drops the current connection and the
\* dial loop succeeds, or gives up and the reader returns.
ReaderReconnect(r) ==
    /\ component = "client"
    /\ rdPc[r] = "checkClosed" /\ scMu = 0
    /\ IF scClosed
       THEN /\ rdPc' = [rdPc EXCEPT ![r] = "exit"]
            /\ rdReader' = [rdReader EXCEPT ![r] = 0]
            /\ UNCHANGED <<connState, scConn, scReader, rdNew, reqs, inbox>>
       ELSE \/ /\ CanDial
               /\ IF scConn # 0
                  THEN /\ connState' = [connState EXCEPT ![scConn] = "closed", ![FreshConn] = "open"]
                       /\ reqs' = Dropped(reqs, scConn)
                       /\ inbox' = Dropped(inbox, scConn)
                       /\ scConn' = 0 /\ scReader' = 0
                  ELSE /\ connState' = [connState EXCEPT ![FreshConn] = "open"]
                       /\ UNCHANGED <<scConn, scReader, reqs, inbox>>
               /\ rdNew' = [rdNew EXCEPT ![r] = FreshConn]
               /\ rdPc' = [rdPc EXCEPT ![r] = "rcInstall"]
               /\ rdReader' = [rdReader EXCEPT ![r] = 0]
            \/ /\ ReconnectClose
               /\ rdPc' = [rdPc EXCEPT ![r] = "exit"]
               /\ rdReader' = [rdReader EXCEPT ![r] = 0]
               /\ UNCHANGED rdNew
    /\ UNCHANGED <<component, toolVars, serviceVars, daemonVars, bridgeVars, dropped, scReqID, scPending, scClosed, scMu,
                   callPc, callId, callConn, callNew, callOut, callGot, respCh,
                   rdTodo, rdCur,
                   connectPc>>

\* reconnect, lines 532-535, then readResponses line 458: continue.
ReaderReconnectInstall(r) ==
    /\ component = "client"
    /\ rdPc[r] = "rcInstall" /\ scMu = 0
    /\ InstallConn(rdNew[r])
    /\ rdNew' = [rdNew EXCEPT ![r] = 0]
    /\ rdPc' = [rdPc EXCEPT ![r] = "top"]
    /\ UNCHANGED <<component, toolVars, serviceVars, daemonVars, bridgeVars, dropped, scReqID, scPending, scClosed, scMu,
                   callPc, callId, callConn, callNew, callOut, callGot, respCh,
                   rdReader, rdTodo, rdCur,
                   connectPc, connState, reqs, inbox>>

(* ------------------------- Connect and Close -------------------------- *)

\* Connect, lines 54-85: the dial loop succeeds, the connection is installed
\* and the reader started; or the loop gives up and nothing changes. The
\* adapter (session_adapter.go:38-48) connects once, before it hands the
\* client out, and drops the client when Connect fails.
Connect ==
    /\ component = "client"
    /\ connectPc = "idle" /\ scMu = 0
    /\ \/ /\ CanDial
          /\ connState' = [connState EXCEPT ![FreshConn] = "open"]
          /\ scConn' = FreshConn /\ scReader' = FreshConn
          /\ rdPc' = [rdPc EXCEPT ![FreshConn] = "top"]
          /\ connectPc' = "ok"
       \/ /\ connectPc' = "failed"
          /\ UNCHANGED <<connState, scConn, scReader, rdPc>>
    /\ UNCHANGED <<component, toolVars, serviceVars, daemonVars, bridgeVars, dropped, scReqID, scPending, scClosed, scMu,
                   callPc, callId, callConn, callNew, callOut, callGot, respCh,
                   rdReader, rdTodo, rdCur, rdNew, reqs, inbox>>

\* Close, lines 88-97: set closed and close the current connection (sc.conn stays set).
Close ==
    /\ component = "client"
    /\ connectPc = "ok"
    /\ ~scClosed /\ scMu = 0
    /\ scClosed' = TRUE
    /\ IF scConn # 0
       THEN /\ connState' = [connState EXCEPT ![scConn] = "closed"]
            /\ reqs' = Dropped(reqs, scConn)
            /\ inbox' = Dropped(inbox, scConn)
       ELSE UNCHANGED <<connState, reqs, inbox>>
    /\ UNCHANGED <<component, toolVars, serviceVars, daemonVars, bridgeVars, dropped, scConn, scReader, scReqID, scPending, scMu,
                   callPc, callId, callConn, callNew, callOut, callGot, respCh,
                   rdPc, rdReader, rdTodo, rdCur, rdNew,
                   connectPc>>

(* --------------------- the daemon and the network --------------------- *)

\* The daemon answers the oldest request of a connection (HandleClient is
\* sequential per connection); it may also never answer.
DaemonReply(k) ==
    /\ component = "client"
    /\ connState[k] = "open" /\ reqs[k] # <<>>
    /\ inbox' = [inbox EXCEPT ![k] = Append(@, Head(reqs[k]))]
    /\ reqs' = [reqs EXCEPT ![k] = Tail(@)]
    /\ UNCHANGED <<component, toolVars, serviceVars, daemonVars, bridgeVars, dropped, scConn, scReader, scReqID, scPending, scClosed, scMu,
                   callPc, callId, callConn, callNew, callOut, callGot, respCh,
                   rdPc, rdReader, rdTodo, rdCur, rdNew,
                   connectPc, connState>>

\* The daemon exits or the network drops the connection.
PeerGone(k) ==
    /\ component = "client"
    /\ connState[k] = "open"
    /\ connState' = [connState EXCEPT ![k] = "broken"]
    /\ reqs' = Dropped(reqs, k)
    /\ UNCHANGED <<component, toolVars, serviceVars, daemonVars, bridgeVars, dropped, scConn, scReader, scReqID, scPending, scClosed, scMu,
                   callPc, callId, callConn, callNew, callOut, callGot, respCh,
                   rdPc, rdReader, rdTodo, rdCur, rdNew,
                   connectPc, inbox>>

(* --------------------------- session daemon --------------------------- *)
(* SessionManager of the session daemon (src/unnamed/part_017). Each API  *)
(* connection is served by one HandleClient goroutine, which handles its  *)
(* requests one after the other. The LSP child answers a request at most  *)
(* once, and may exit at any time, after which writes to its stdin fail.  *)

\* A request as the child holds it: its id, and the handler and the number
\* of the API request it was sent for. NoResponse: nothing received.
NoResponse == [id |-> 0, h |-> 0, n |-> 0]
ChildRequests == [id : 1..(1 + NHandlers * MaxReqs), h : Handlers, n : 0..(MaxReqs - 1)]

\* HandleClient, lines 416-421: no request read yet; nothing written.
NoRequest == [id |-> 0, method |-> "none"]
NoLine == [id |-> 0, kind |-> "none", code |-> 0, result |-> "none", reply |-> NoResponse]

\* handleAPIRequest, lines 483-528: the arm of the switch a method takes.
handleAPIRequest(method) ==
    IF method = "session/status" THEN "status"
    ELSE IF method = "session/capabilities" THEN "capabilities"
    ELSE IF method = "textDocument/didOpen" THEN "didOpen"
    ELSE IF method = "textDocument/didClose" THEN "didClose"
    ELSE IF method \in {"textDocument/hover", "textDocument/definition",
                        "textDocument/references", "textDocument/documentSymbol",
                        "textDocument/diagnostic", "textDocument/implementation",
                        "textDocument/codeAction", "textDocument/formatting",
                        "textDocument/rename", "textDocument/prepareRename",
                        "textDocument/prepareCallHierarchy",
                        "callHierarchy/incomingCalls", "callHierarchy/outgoingCalls",
                        "workspace/symbol"} THEN "forward"
    ELSE "unknown"

\* HandleClient, lines 432-456, and sendAPIError, lines 463-474: the line
\* written for what handleAPIRequest returned. An error is answered with
\* code -32603, a result is written under the id of the request; the result
\* of a forwarded request is the value taken from the channel.
Response(id, out, payload, got) ==
    IF out = "error"
      THEN [id |-> id, kind |-> "error", code |-> CodeInternalError,
            result |-> "none", reply |-> NoResponse]
      ELSE [id |-> id, kind |-> "result", code |-> 0,
            result |-> IF out = "result" THEN payload ELSE out, reply |-> got]

\* The state when the API listener starts: Start() has run initialize(),
\* which used request id 1 (lines 171-240); no document is open.
InitDaemonRest ==
    /\ openDocs = {}
    /\ requestID = 1
    /\ pending = <<>>
    /\ childAlive = TRUE
    /\ childReqs = {}
    /\ childNote = [u \in Uris |-> "none"]
    /\ openWrites = [u \in Uris |-> 0]
    /\ closeSeen = [u \in Uris |-> FALSE]
    /\ firstOpens = [u \in Uris |-> 0]
    /\ openAnswered = [u \in Uris |-> 0]
    /\ hPc = [h \in Handlers |-> "idle"]
    /\ hMethod = [h \in Handlers |-> "none"]
    /\ hUri = [h \in Handlers |-> 0]
    /\ hId = [h \in Handlers |-> 0]
    /\ hOut = [h \in Handlers |-> "none"]
    /\ hCount = [h \in Handlers |-> 0]
    /\ hResp = [h \in Handlers |-> <<>>]
    /\ hGot = [h \in Handlers |-> NoResponse]
    /\ hPayload = [h \in Handlers |-> "none"]
    /\ hReq = [h \in Handlers |-> NoRequest]
    /\ hSent = [h \in Handlers |-> NoLine]
    /\ lateIds = {}

\* The API clients of the bridge: the session client opens and closes
\* documents and forwards requests, all parsable; the ids do not matter.
DocumentClients ==
    [methods |-> {"textDocument/didOpen", "textDocument/didClose", "textDocument/hover"},
     ids |-> {1}, malformed |-> FALSE]

InitDaemonVars == InitDaemonRest /\ apiClients = DocumentClients

\* A faulty id source that does not advance: what C24 must exclude.
SameRequestID(cur) == cur

\* sendRequest, lines 245-246: sm.requestID++ ; id := sm.requestID
NextRequestID(cur) == cur + 1

\* handleDidOpen, lines 564-565: alreadyOpen := sm.openDocs[uri], read
\* under openDocsMu in the same critical section that sets the entry.
AlreadyOpen(u) == u \in openDocs

\* sendRequest, lines 251-255: the deferred delete(sm.pending, id).
DeferredDelete(h) == MapDel(pending, hId[h])

\* A faulty lookup that takes the oldest pending channel whatever the id of
\* the response: what C23 must exclude.
OldestPendingTarget(id) ==
    IF DOMAIN pending = {} THEN {}
    ELSE {pending[CHOOSE i \in DOMAIN pending : \A j \in DOMAIN pending : i <= j]}

\* readResponses, lines 335-336: the channel a response is sent on, if any.
ResponseTarget(id) == IF id \in DOMAIN pending THEN {pending[id]} ELSE {}

\* handleDidOpen, lines 563-572: under openDocsMu the URI is looked up and
\* recorded in one critical section; a URI already recorded is answered
\* {"status":"already_open"} at once, else the notification is sent next.
DidOpen(h, u) ==
    /\ component = "daemon"
    /\ hPc[h] = "idle" /\ hCount[h] < MaxReqs
    /\ "textDocument/didOpen" \in apiClients.methods
    /\ \E id \in apiClients.ids :
          /\ hReq' = [hReq EXCEPT ![h] = [id |-> id, method |-> "textDocument/didOpen"]]
          /\ hSent' = [hSent EXCEPT ![h] =
                          IF AlreadyOpen(u)
                            THEN Response(id, "already_open", "none", NoResponse)
                            ELSE NoLine]
    /\ openDocs' = openDocs \cup {u}
    /\ hMethod' = [hMethod EXCEPT ![h] = "didOpen"]
    /\ hUri' = [hUri EXCEPT ![h] = u]
    /\ IF AlreadyOpen(u)
         THEN /\ hOut' = [hOut EXCEPT ![h] = "already_open"]
              /\ hCount' = [hCount EXCEPT ![h] = @ + 1]
              /\ openAnswered' = [openAnswered EXCEPT ![u] = @ + 1]
              /\ UNCHANGED <<hPc, firstOpens>>
         ELSE /\ hPc' = [hPc EXCEPT ![h] = "notify"]
              /\ hOut' = [hOut EXCEPT ![h] = "none"]
              /\ firstOpens' = [firstOpens EXCEPT ![u] = @ + 1]
              /\ UNCHANGED <<hCount, openAnswered>>
    /\ UNCHANGED <<component, toolVars, serviceVars, clientVars, bridgeVars, hPayload, apiClients, requestID, pending, childAlive,
                   childReqs, childNote, openWrites, closeSeen, hId, hResp, hGot, lateIds>>

\* handleDidClose, lines 589-591: the URI is deleted under openDocsMu; the
\* notification is sent after the lock is released.
DidClose(h, u) ==
    /\ component = "daemon"
    /\ hPc[h] = "idle" /\ hCount[h] < MaxReqs
    /\ "textDocument/didClose" \in apiClients.methods
    /\ \E id \in apiClients.ids :
          hReq' = [hReq EXCEPT ![h] = [id |-> id, method |-> "textDocument/didClose"]]
    /\ hSent' = [hSent EXCEPT ![h] = NoLine]
    /\ openDocs' = openDocs \ {u}
    /\ closeSeen' = [closeSeen EXCEPT ![u] = TRUE]
    /\ hMethod' = [hMethod EXCEPT ![h] = "didClose"]
    /\ hUri' = [hUri EXCEPT ![h] = u]
    /\ hPc' = [hPc EXCEPT ![h] = "notify"]
    /\ hOut' = [hOut EXCEPT ![h] = "none"]
    /\ UNCHANGED <<component, toolVars, serviceVars, clientVars, bridgeVars, hPayload, apiClients, requestID, pending, childAlive,
                   childReqs, childNote, openWrites, firstOpens, openAnswered,
                   hId, hCount, hResp, hGot, lateIds>>

\* sendNotification and writeMessage, lines 277-305, then the reply of
\* HandleClient, lines 432-456: under sm.mu the message is written to the
\* child's stdin; a failed write is answered with error -32603, a written
\* notification with a null result.
Notify(h) ==
    /\ component = "daemon"
    /\ hPc[h] = "notify"
    /\ IF childAlive
         THEN /\ childNote' = [childNote EXCEPT ![hUri[h]] = hMethod[h]]
              /\ openWrites' = [openWrites EXCEPT ![hUri[h]] =
                                   IF hMethod[h] = "didOpen" THEN @ + 1 ELSE @]
              /\ hOut' = [hOut EXCEPT ![h] = "null"]
         ELSE /\ hOut' = [hOut EXCEPT ![h] = "error"]
              /\ UNCHANGED <<childNote, openWrites>>
    /\ openAnswered' = [openAnswered EXCEPT ![hUri[h]] =
                           IF hMethod[h] = "didOpen" THEN @ + 1 ELSE @]
    /\ hSent' = [hSent EXCEPT ![h] = Response(hReq[h].id, hOut'[h], "none", NoResponse)]
    /\ hPc' = [hPc EXCEPT ![h] = "idle"]
    /\ hCount' = [hCount EXCEPT ![h] = @ + 1]
    /\ UNCHANGED <<component, toolVars, serviceVars, clientVars, bridgeVars, hPayload, hReq, apiClients, openDocs, requestID, pending,
                   childAlive, childReqs, closeSeen, firstOpens,
                   hMethod, hUri, hId, hResp, hGot, lateIds>>

\* handleAPIRequest, lines 497-523, and sendRequest, lines 244-249: a
\* forwarded method takes the next id and registers a fresh channel of
\* capacity 1 under pendingMu.
Forward(h) ==
    /\ component = "daemon"
    /\ hPc[h] = "idle" /\ hCount[h] < MaxReqs
    /\ \E id \in apiClients.ids, method \in apiClients.methods :
          /\ handleAPIRequest(method) = "forward"
          /\ hReq' = [hReq EXCEPT ![h] = [id |-> id, method |-> method]]
    /\ hSent' = [hSent EXCEPT ![h] = NoLine]
    /\ requestID' = NextRequestID(requestID)
    /\ hId' = [hId EXCEPT ![h] = requestID']
    /\ pending' = MapPut(pending, requestID', h)
    /\ hResp' = [hResp EXCEPT ![h] = <<>>]
    /\ hGot' = [hGot EXCEPT ![h] = NoResponse]
    /\ hPayload' = [hPayload EXCEPT ![h] = "none"]
    /\ hMethod' = [hMethod EXCEPT ![h] = "forward"]
    /\ hPc' = [hPc EXCEPT ![h] = "reqWrite"]
    /\ hOut' = [hOut EXCEPT ![h] = "none"]
    /\ UNCHANGED <<component, toolVars, serviceVars, clientVars, bridgeVars, apiClients, openDocs, childAlive, childReqs,
                   childNote, openWrites, closeSeen, firstOpens, openAnswered,
                   hUri, hCount, lateIds>>

\* sendRequest, lines 264-266: the request is written to the child; a
\* failed write returns the error (the deferred delete runs next).
ReqWrite(h) ==
    /\ component = "daemon"
    /\ hPc[h] = "reqWrite"
    /\ IF childAlive
         THEN /\ childReqs' = childReqs \cup {[id |-> hId[h], h |-> h, n |-> hCount[h]]}
              /\ hPc' = [hPc EXCEPT ![h] = "reqWait"]
              /\ UNCHANGED hOut
         ELSE /\ hOut' = [hOut EXCEPT ![h] = "error"]
              /\ hPc' = [hPc EXCEPT ![h] = "reqDefer"]
              /\ UNCHANGED childReqs
    /\ UNCHANGED <<component, toolVars, serviceVars, clientVars, bridgeVars, hPayload, hReq, hSent, apiClients, openDocs, requestID, pending,
                   childAlive, childNote, openWrites, closeSeen, firstOpens, openAnswered,
                   hMethod, hUri, hId, hCount, hResp, hGot, lateIds>>

\* sendRequest, lines 268-270: the select takes the response.
ReqReceive(h) ==
    /\ component = "daemon"
    /\ hPc[h] = "reqWait" /\ hResp[h] # <<>>
    /\ hGot' = [hGot EXCEPT ![h] = Head(hResp[h])]
    /\ hResp' = [hResp EXCEPT ![h] = <<>>]
    /\ hOut' = [hOut EXCEPT ![h] = "result"]
    /\ hPc' = [hPc EXCEPT ![h] = "reqDefer"]
    /\ UNCHANGED <<component, toolVars, serviceVars, clientVars, bridgeVars, hPayload, hReq, hSent, apiClients, openDocs, requestID, pending,
                   childAlive, childReqs, childNote, openWrites, closeSeen, firstOpens,
                   openAnswered, hMethod, hUri, hId, hCount, lateIds>>

\* sendRequest, lines 271-272: the select takes ctx.Done() (90 s, line 480).
ReqTimeout(h) ==
    /\ component = "daemon"
    /\ hPc[h] = "reqWait"
    /\ hOut' = [hOut EXCEPT ![h] = "error"]
    /\ hPc' = [hPc EXCEPT ![h] = "reqDefer"]
    /\ UNCHANGED <<component, toolVars, serviceVars, clientVars, bridgeVars, hPayload, hReq, hSent, apiClients, openDocs, requestID, pending,
                   childAlive, childReqs, childNote, openWrites, closeSeen, firstOpens,
                   openAnswered, hMethod, hUri, hId, hCount, hResp, hGot, lateIds>>

\* sendRequest, lines 251-255, on return: the id leaves sm.pending; then
\* HandleClient answers the API client (lines 432-456).
ReqDefer(h) ==
    /\ component = "daemon"
    /\ hPc[h] = "reqDefer"
    /\ pending' = DeferredDelete(h)
    /\ hSent' = [hSent EXCEPT ![h] = Response(hReq[h].id, hOut[h], hPayload[h], hGot[h])]
    /\ hResp' = [hResp EXCEPT ![h] = <<>>]
    /\ hPc' = [hPc EXCEPT ![h] = "idle"]
    /\ hCount' = [hCount EXCEPT ![h] = @ + 1]
    /\ UNCHANGED <<component, toolVars, serviceVars, clientVars, bridgeVars, hPayload, hReq, apiClients, openDocs, requestID,
                   childAlive, childReqs, childNote, openWrites, closeSeen, firstOpens,
                   openAnswered, hMethod, hUri, hId, hOut, hGot, lateIds>>

\* The variables of the documents, the child and the forwarding, which the
\* requests answered at once leave alone.
forwardVars == <<openDocs, requestID, pending, childAlive, childReqs, childNote,
                 openWrites, hUri, hId, hGot, hResp, hPayload, closeSeen, firstOpens,
                 openAnswered, lateIds>>

\* HandleClient, lines 420-456, for a request handleAPIRequest answers at
\* once with the given outcome: the method is recorded and the response
\* written in one step.
AnswerAtOnce(h, id, method, out) ==
    /\ hReq' = [hReq EXCEPT ![h] = [id |-> id, method |-> method]]
    /\ hMethod' = [hMethod EXCEPT ![h] = handleAPIRequest(method)]
    /\ hOut' = [hOut EXCEPT ![h] = out]
    /\ hSent' = [hSent EXCEPT ![h] = Response(id, out, "none", NoResponse)]
    /\ hCount' = [hCount EXCEPT ![h] = @ + 1]
    /\ UNCHANGED <<component, toolVars, serviceVars, clientVars, bridgeVars, forwardVars,
                   hPc, apiClients>>

\* handleAPIRequest, lines 484-491: session/status and session/capabilities
\* are answered from the manager's own state.
Introspect(h) ==
    /\ component = "daemon"
    /\ hPc[h] = "idle" /\ hCount[h] < MaxReqs
    /\ \E id \in apiClients.ids, method \in apiClients.methods :
          /\ handleAPIRequest(method) \in {"status", "capabilities"}
          /\ AnswerAtOnce(h, id, method, handleAPIRequest(method))

\* handleAPIRequest, lines 526-527: any other method returns the error
\* "unknown method", which HandleClient answers as every error (line 436).
UnknownMethod(h) ==
    /\ component = "daemon"
    /\ hPc[h] = "idle" /\ hCount[h] < MaxReqs
    /\ \E id \in apiClients.ids, method \in apiClients.methods :
          /\ handleAPIRequest(method) = "unknown"
          /\ AnswerAtOnce(h, id, method, "error")

\* HandleClient, lines 426-430: a line that is no JSON is answered with
\* error -32700 under id 0; handleAPIRequest is not called.
ParseError(h) ==
    /\ component = "daemon"
    /\ hPc[h] = "idle" /\ hCount[h] < MaxReqs
    /\ apiClients.malformed
    /\ hReq' = [hReq EXCEPT ![h] = NoRequest]
    /\ hMethod' = [hMethod EXCEPT ![h] = "none"]
    /\ hOut' = [hOut EXCEPT ![h] = "error"]
    /\ hSent' = [hSent EXCEPT ![h] = [NoLine EXCEPT !.kind = "error", !.code = CodeParseError]]
    /\ hCount' = [hCount EXCEPT ![h] = @ + 1]
    /\ UNCHANGED <<component, toolVars, serviceVars, clientVars, bridgeVars, forwardVars,
                   hPc, apiClients>>

\* The child answers a request; readResponses, lines 312-348, reads the
\* response and, under pendingMu, sends it on the channel registered for
\* its id; a response with no pending entry is dropped. The channel of a
\* registered id is empty, since the child answers an id once. The value
\* sent is the result, or for an error response the error marshalled as
\* JSON (lines 337-343).
ChildReply(q) ==
    /\ component = "daemon"
    /\ childAlive /\ q \in childReqs
    /\ \A h \in ResponseTarget(q.id) : hResp[h] = <<>>
    /\ childReqs' = childReqs \ {q}
    /\ hResp' = [h \in Handlers |-> IF h \in ResponseTarget(q.id) THEN <<q>> ELSE hResp[h]]
    /\ \E payload \in {"result", "errJSON"} :
          hPayload' = [h \in Handlers |->
                         IF h \in ResponseTarget(q.id) THEN payload
                         ELSE hPayload[h]]
    /\ lateIds' = IF ResponseTarget(q.id) = {} THEN lateIds \cup {q.id} ELSE lateIds
    /\ UNCHANGED <<component, toolVars, serviceVars, clientVars, bridgeVars, hReq, hSent, apiClients, openDocs, requestID, pending,
                   childAlive, childNote, openWrites, closeSeen, firstOpens, openAnswered,
                   hPc, hMethod, hUri, hId, hOut, hCount, hGot>>

\* The child process exits: readResponses returns on the read error (lines
\* 313-316) and every later write to stdin fails (lines 298-303).
ChildExit ==
    /\ component = "daemon"
    /\ childAlive
    /\ childAlive' = FALSE
    /\ childReqs' = {}
    /\ UNCHANGED <<component, toolVars, serviceVars, clientVars, bridgeVars, hPayload, hReq, hSent, apiClients, openDocs, requestID, pending,
                   childNote, openWrites, closeSeen, firstOpens, openAnswered,
                   hPc, hMethod, hUri, hId, hOut, hCount, hResp, hGot, lateIds>>

\* What the child sends of its own accord: notifications, which have no id
\* (0 here), and requests, to which it gives ids of its own, in order.
ServerNotifications == [id : {0}, method : {"$/progress", "textDocument/publishDiagnostics"}]
ServerRequests ==
    [id : 1..MaxServerReqs,
     method : {"window/workDoneProgress/create", "workspace/configuration"}]

\* readResponses, lines 312-353: a message with a method is no response
\* (line 335 requires an empty method), whether it has an id or not, and is
\* passed to handleNotification (lines 351-353), which logs it (lines
\* 358-387) and writes nothing to the child.
ServerMessage(msg) ==
    /\ component = "daemon"
    /\ childAlive
    /\ msg.id # 0 => msg.id = Cardinality(srvRequests) + 1
    /\ srvRequests' = IF msg.id # 0 THEN srvRequests \cup {msg} ELSE srvRequests
    /\ srvReplies' = srvReplies
    /\ UNCHANGED <<component, coreVars, toolVars, autoVars, progressVars, startVars, connectVars>>

(* The start of the daemon: main (lines 39-89), Start (lines 128-160) and *)
(* initialize (lines 171-240). main is one goroutine; readResponses runs  *)
(* beside it from line 152 on. The child answers initialize at most once, *)
(* with a result or with an error, and may exit at any time.              *)

\* The part of startVars main's steps before the answer leave alone.
startResults == <<smInitialized, smInitResult, smCapabilities, accepted>>

\* Start, lines 131-152: the child is started and readResponses with it, or
\* the start fails and main ends in log.Fatalf (lines 56-58).
StartChild ==
    /\ component = "start"
    /\ startPc = "new"
    /\ \/ startChild' = "running" /\ startPc' = "started"
       \/ startChild' = "none" /\ startPc' = "fatal"
    /\ UNCHANGED <<component, coreVars, toolVars, autoVars, progressVars, lifeVars, connectVars,
                   childGot, childAnswer, startPending, initCh, elapsed, startResults>>

\* initialize, line 208, and sendRequest, lines 244-266: the channel is
\* registered and the request written; a failed write (the child has
\* exited) ends main, the deferred delete having run.
SendInitialize ==
    /\ component = "start"
    /\ startPc = "started"
    /\ IF startChild = "running"
       THEN /\ childGot' = childGot \cup {"initialize"}
            /\ startPending' = TRUE
            /\ startPc' = "waiting"
       ELSE /\ startPc' = "fatal"
            /\ UNCHANGED <<childGot, startPending>>
    /\ UNCHANGED <<component, coreVars, toolVars, autoVars, progressVars, lifeVars, connectVars,
                   startChild, childAnswer, initCh, elapsed, startResults>>

\* The child answers initialize; readResponses, lines 335-348: the result,
\* or the error marshalled as JSON, is sent on the channel if it is still
\* registered.
ChildAnswersInitialize(kind) ==
    /\ component = "start"
    /\ startChild = "running"
    /\ "initialize" \in childGot /\ childAnswer = "none"
    /\ childAnswer' = kind
    /\ initCh' = IF startPending
                 THEN <<IF kind = "error" THEN "errJSON" ELSE "result">>
                 ELSE initCh
    /\ UNCHANGED <<component, coreVars, toolVars, autoVars, progressVars, lifeVars, connectVars,
                   startPc, startChild, childGot, startPending, elapsed, startResults>>

\* The child exits; readResponses returns on the read error (lines 313-316).
StartChildExit ==
    /\ component = "start"
    /\ startChild = "running"
    /\ startChild' = "exited"
    /\ UNCHANGED <<component, coreVars, toolVars, autoVars, progressVars, lifeVars, connectVars,
                   startPc, childGot, childAnswer, startPending, initCh, elapsed,
                   startResults>>

\* Time passes while sendRequest waits in its select (lines 268-273).
StartTick ==
    /\ component = "start"
    /\ startPc = "waiting"
    /\ elapsed < InitializeTimeout
    /\ elapsed' = elapsed + TickSeconds
    /\ UNCHANGED <<component, coreVars, toolVars, autoVars, progressVars, lifeVars, connectVars,
                   startPc, startChild, childGot, childAnswer, startPending, initCh,
                   startResults>>

\* sendRequest, lines 269-270 and 251-255, then initialize, lines 209-226:
\* the value on the channel is returned with a nil error; it is stored as
\* the initialize result, the session is marked initialized, and the
\* capabilities are taken from it (an error object has none).
InitReceive ==
    /\ component = "start"
    /\ startPc = "waiting"
    /\ initCh # <<>>
    /\ initCh' = <<>>
    /\ startPending' = FALSE
    /\ smInitResult' = Head(initCh)
    /\ smInitialized' = TRUE
    /\ smCapabilities' = IF Head(initCh) = "result" THEN "capabilities" ELSE "none"
    /\ startPc' = "marked"
    /\ UNCHANGED <<component, coreVars, toolVars, autoVars, progressVars, lifeVars, connectVars,
                   startChild, childGot, childAnswer, elapsed, accepted>>

\* sendRequest, lines 271-272: the 60 s context of initialize (line 205) is
\* done; initialize and Start return the error and main ends in log.Fatalf.
InitTimeout ==
    /\ component = "start"
    /\ startPc = "waiting"
    /\ elapsed >= InitializeTimeout
    /\ startPending' = FALSE
    /\ startPc' = "fatal"
    /\ UNCHANGED <<component, coreVars, toolVars, autoVars, progressVars, lifeVars, connectVars,
                   startChild, childGot, childAnswer, initCh, elapsed, startResults>>

\* initialize, lines 231-239: the initialized notification is written; a
\* failed write is only logged. Start returns nil.
SendInitialized ==
    /\ component = "start"
    /\ startPc = "marked"
    /\ childGot' = IF startChild = "running" THEN childGot \cup {"initialized"} ELSE childGot
    /\ startPc' = "listen"
    /\ UNCHANGED <<component, coreVars, toolVars, autoVars, progressVars, lifeVars, connectVars,
                   startChild, childAnswer, startPending, initCh, elapsed, startResults>>

\* main, lines 61-66: net.Listen succeeds, or fails and main ends.
Listen ==
    /\ component = "start"
    /\ startPc = "listen"
    /\ startPc' \in {"accepting", "fatal"}
    /\ UNCHANGED <<component, coreVars, toolVars, autoVars, progressVars, lifeVars, connectVars,
                   startChild, childGot, childAnswer, startPending, initCh, elapsed,
                   startResults>>

\* main, lines 81-88: a connection is accepted and HandleClient started.
Accept ==
    /\ component = "start"
    /\ startPc = "accepting"
    /\ accepted < NHandlers
    /\ accepted' = accepted + 1
    /\ UNCHANGED <<component, coreVars, toolVars, autoVars, progressVars, lifeVars, connectVars,
                   startPc, startChild, childGot, childAnswer, startPending, initCh,
                   elapsed, smInitialized, smInitResult, smCapabilities>>

(* ConnectTCP (src/unnamed/part_006:43-148) and ConnectWebSocket          *)
(* (src/unnamed/part_007:45-122) of a LanguageClient. The carrier may     *)
(* disconnect at any time once it is dialled, which closes the channel of *)
(* DisconnectNotify. Nothing in these files cancels the client's context. *)
(* lc.status is written by the connecting goroutine and by the monitor    *)
(* without a lock; the writes take effect in the order they are made.     *)

\* The dial loop, part_006:57-74 and part_007:60-77: an attempt succeeds,
\* and the JSON-RPC connection is created on the carrier (part_006:76-112,
\* part_007:79-101), or fails; after the last failed attempt the call
\* returns an error.
Dial(ok) ==
    /\ component = "connect"
    /\ lcPc = "dial"
    /\ IF ok THEN lcPc' = "created" /\ stream' = "alive" /\ attempt' = attempt
       ELSE IF attempt < MaxConnectionAttempts
       THEN lcPc' = "dial" /\ stream' = stream /\ attempt' = attempt + 1
       ELSE lcPc' = "failed" /\ stream' = stream /\ attempt' = attempt
    /\ UNCHANGED <<component, coreVars, toolVars, autoVars, progressVars, lifeVars,
                   startVars, transport, monPc, lcStatus>>

\* The carrier errors or closes.
StreamDisconnects ==
    /\ component = "connect"
    /\ stream = "alive"
    /\ stream' = "disconnected"
    /\ UNCHANGED <<component, coreVars, toolVars, autoVars, progressVars, lifeVars,
                   startVars, transport, lcPc, attempt, monPc, lcStatus>>

\* ConnectTCP, lines 114-121: a connection already disconnected makes the
\* call return an error. ConnectWebSocket has no such check.
CheckDisconnect ==
    /\ component = "connect"
    /\ transport = "tcp" /\ lcPc = "created"
    /\ lcPc' = IF stream = "disconnected" THEN "failed" ELSE "checked"
    /\ UNCHANGED <<component, coreVars, toolVars, autoVars, progressVars, lifeVars,
                   startVars, transport, attempt, stream, monPc, lcStatus>>

\* part_006:124 and part_007:104: go func() of the monitor.
SpawnMonitor ==
    /\ component = "connect"
    /\ lcPc = IF transport = "tcp" THEN "checked" ELSE "created"
    /\ monPc' = "waiting"
    /\ lcPc' = "spawned"
    /\ UNCHANGED <<component, coreVars, toolVars, autoVars, progressVars, lifeVars,
                   startVars, transport, attempt, stream, lcStatus>>

\* The monitor, part_006:126-131 and part_007:105-109: the channel of
\* DisconnectNotify is closed; lc.status = StatusDisconnected.
MonitorDisconnect ==
    /\ component = "connect"
    /\ monPc = "waiting" /\ stream = "disconnected"
    /\ lcStatus' = "disconnected"
    /\ monPc' = "done"
    /\ UNCHANGED <<component, coreVars, toolVars, autoVars, progressVars, lifeVars,
                   startVars, transport, lcPc, attempt, stream>>

\* part_006:140-147 and part_007:115-121: lc.status = StatusConnected, and
\* the call returns the client.
SetConnected ==
    /\ component = "connect"
    /\ lcPc = "spawned"
    /\ lcStatus' = "connected"
    /\ lcPc' = "done"
    /\ UNCHANGED <<component, coreVars, toolVars, autoVars, progressVars, lifeVars,
                   startVars, transport, attempt, stream, monPc>>

(* ------------------- status, readiness gate, warm-up ------------------ *)
(* BuildLSPStatus and CheckReadyOrReturn (src/unnamed/part_010), the      *)
(* bridge's client map (src/unnamed/part_001) and the warm-up state       *)
(* machine (src/bridge/auto_connect.go). A client is the record of what   *)
(* the status computation reads of it: the status string, the connected   *)
(* flag and the last error of its metrics, the number of active progress  *)
(* tokens, the indexing state a SessionAdapter reports ("none" when the   *)
(* client is no SessionAdapter or reports nothing) and the server         *)
(* configuration found for its key, directly or through its language.     *)
(* An error text is the sequence of its words.                            *)

\* strings.Contains(s, sub), on sequences of words.
Contains(s, sub) ==
    \E i \in 0..(Len(s) - Len(sub)) : SubSeq(s, i + 1, i + Len(sub)) = sub

\* BuildLSPStatus, lines 100-103: a connection-level problem of one client.
IsConnError(c) ==
    \/ c.status = "disconnected"
    \/ ~c.connected
    \/ Contains(c.lastError, <<"connection", "is", "closed">>)
    \/ Contains(c.lastError, <<"already", "disconnected">>)
    \/ Contains(c.lastError, <<"EOF">>)

\* BuildLSPStatus, line 107.
IsStarting(c) == c.status \in {"connecting", "uninitialized", "restarting"}

\* BuildLSPStatus, lines 143-162: the indexing status is taken from the
\* first client, in sorted server order, that reports one.
IndexingOf(cl) ==
    LET has == {s \in DOMAIN cl : cl[s].idx # "none"}
    IN  IF has = {} THEN "none"
        ELSE cl[CHOOSE s \in has : \A t \in has : s <= t].idx

\* A faulty state switch that tests busy before error: what C25 must exclude.
StateBusyFirst(anyError, anyBusy, anyStarting, connectedCount) ==
    IF anyBusy THEN "busy"
    ELSE IF anyError THEN "error"
    ELSE IF anyStarting \/ connectedCount = 0 THEN "starting"
    ELSE "ready"

\* BuildLSPStatus, lines 164-173: the state switch.
StateOf(anyError, anyBusy, anyStarting, connectedCount) ==
    IF anyError THEN "error"
    ELSE IF anyBusy THEN "busy"
    ELSE IF anyStarting \/ connectedCount = 0 THEN "starting"
    ELSE "ready"

\* A faulty readiness that ignores connection errors: what C8 must exclude.
ReadyIgnoringErrors(connectedCount, anyError) == connectedCount > 0

\* BuildLSPStatus, line 178: status.Ready.
ReadyOf(connectedCount, anyError) == connectedCount > 0 /\ ~anyError

\* BuildLSPStatus, lines 59-181, of the concrete bridge with client map cl.
BuildLSPStatus(cl) ==
    IF DOMAIN cl = {}
      THEN [ready |-> FALSE, state |-> "starting", connected |-> 0, indexing |-> "none"]
      ELSE LET connectedCount == Cardinality({s \in DOMAIN cl : cl[s].connected})
               anyError == \E s \in DOMAIN cl : IsConnError(cl[s])
               anyStarting == \E s \in DOMAIN cl : IsStarting(cl[s])
               indexing == IndexingOf(cl)
               anyBusy == (\E s \in DOMAIN cl : cl[s].active > 0) \/ indexing = "indexing"
           IN  [ready |-> ReadyOf(connectedCount, anyError),
                state |-> StateOf(anyError, anyBusy, anyStarting, connectedCount),
                connected |-> connectedCount,
                indexing |-> indexing]

\* SessionAdapter.GetMetrics (part_008:521-529) through sessionMetrics
\* (part_008:570-598): what the status computation reads of a session
\* client. The connected flag is sa.connected, the status is Connected only
\* if the SessionClient too has a connection, the last error is empty; the
\* adapter has no progress snapshot.
GetMetrics(saConnected, clientConnected) ==
    [status |-> IF saConnected /\ clientConnected THEN "connected"
                ELSE IF ~saConnected THEN "disconnected"
                ELSE "uninitialized",
     connected |-> saConnected,
     lastError |-> <<>>, active |-> 0, idx |-> "none",
     cfgKey |-> "none", cfgLang |-> "session"]

\* AllClientsInSessionMode, lines 89-102: the server configuration of a
\* client is looked up under its key as a server name, else under the
\* server name of the key taken as a language.
ServerConfigOf(c) == IF c.cfgKey # "none" THEN c.cfgKey ELSE c.cfgLang

\* AllClientsInSessionMode, lines 76-105.
AllClientsInSessionMode(cl) ==
    /\ DOMAIN cl # {}
    /\ \A s \in DOMAIN cl : ServerConfigOf(cl[s]) = "session"

\* The client maps the status computation is checked on.
StatusStrings == {"uninitialized", "connecting", "connected", "disconnected", "restarting", "error"}
ErrorTexts == {<<>>, <<"unexpected", "EOF">>, <<"write:", "connection", "is", "closed">>,
               <<"client", "already", "disconnected">>, <<"request", "timed", "out">>}
StatusClients ==
    [status : StatusStrings, connected : BOOLEAN, lastError : ErrorTexts,
     active : 0..MaxActive, idx : {"none", "idle", "indexing"},
     cfgKey : {"none"}, cfgLang : {"session"}]
ClientMaps(kinds) == UNION {[S -> kinds] : S \in SUBSET Servers}

\* The clients the bridge holds while the gate and the warm-up run.
Healthy == [status |-> "connected", connected |-> TRUE, lastError |-> <<>>,
            active |-> 0, idx |-> "none", cfgKey |-> "none", cfgLang |-> "none"]
BridgeClients ==
    { [Healthy EXCEPT !.cfgLang = "session", !.idx = "idle"],
      [Healthy EXCEPT !.cfgKey = "stdio"],
      [Healthy EXCEPT !.cfgKey = "stdio", !.active = 1],
      [Healthy EXCEPT !.cfgKey = "stdio", !.status = "error", !.lastError = <<"unexpected", "EOF">>],
      [Healthy EXCEPT !.cfgLang = "session", !.status = "disconnected", !.connected = FALSE] }

\* NewMCPLSPBridge: the mutex is free and the times are zero; no connect
\* task runs.
InitAutoVars ==
    /\ autoConnectMu = "free"
    /\ autoConnectLastAttempt = 0
    /\ connectTasks = 0
    /\ syncPc = "idle"
    /\ warmupFinishedAt = 0

(* ProgressTracker (src/lsp/progress.go). A token is an integer or a string *)
(* (protocol.ProgressToken); a string is the sequence of its characters.    *)
(* The value of an update either cannot be marshalled, or decodes to a kind *)
(* which is any string, the empty one when the value has none.              *)

\* fmt.Sprintf("%d", v) of a small int32.
Itoa(v) == <<<<"0">>, <<"1">>, <<"2">>>>[v + 1]

\* progressTokenKey, lines 45-55.
progressTokenKey(t) == IF t.type = "int32" THEN Itoa(t.v) ELSE t.s

\* The tokens the server uses, and the parameters of an Update call.
Tokens == [type : {"int32"}, v : {1, 2}, s : {<<>>}]
              \cup [type : {"string"}, v : {0}, s : {<<"1">>, <<"a">>}]
ProgressKinds == {"begin", "report", "end", "", "progress"}
ProgressParams == [token : Tokens, marshals : {TRUE}, kind : ProgressKinds]
                      \cup [token : Tokens, marshals : {FALSE}, kind : {""}]

\* NewProgressTracker, lines 39-43.
NoEvent == [TokenKey |-> <<>>, Kind |-> "nil", Time |-> 0]
InitProgressVars == active = <<>> /\ last = NoEvent /\ updates = <<>>

\* Update, lines 66-105: the event of the parameters; its kind is
\* "unknown" when the value cannot be marshalled or has no kind.
EventOf(params, now) ==
    [TokenKey |-> progressTokenKey(params.token),
     Kind |-> IF ~params.marshals \/ params.kind = "" THEN "unknown" ELSE params.kind,
     Time |-> now]

\* A faulty update that keeps the end event of a token in the active map:
\* what C30 must exclude.
ActiveKeepingEnd(act, ev) == MapPut(act, ev.TokenKey, ev)

\* Update, lines 112-123: the active map after the event.
ActiveAfter(act, ev) ==
    IF ev.Kind \in {"begin", "report"} THEN MapPut(act, ev.TokenKey, ev)
    ELSE IF ev.Kind = "end" THEN MapDel(act, ev.TokenKey)
    ELSE IF ev.TokenKey \in DOMAIN act THEN MapPut(act, ev.TokenKey, ev)
    ELSE act

\* Update, lines 65-124: a value that cannot be marshalled leaves only the
\* marker event in pt.last (lines 70-81); else pt.last and pt.active are
\* set under pt.mu.
Update(params) ==
    /\ component = "progress"
    /\ Len(updates) < MaxUpdates
    /\ updates' = Append(updates, params)
    /\ LET ev == EventOf(params, Len(updates) + 1)
       IN  /\ last' = ev
           /\ active' = IF params.marshals THEN ActiveAfter(active, ev) ELSE active
    /\ UNCHANGED <<component, coreVars, toolVars, autoVars, lifeVars, startVars, connectVars>>

\* Start, lines 171-240: the child has just answered initialize and has
\* sent nothing else yet.
InitLifeVars == srvRequests = {} /\ srvReplies = {}

\* main, lines 39-53: NewSessionManager has run; the child is not started.
InitStartVars ==
    /\ startPc = "new"
    /\ startChild = "none"
    /\ childGot = {}
    /\ childAnswer = "none"
    /\ startPending = FALSE
    /\ initCh = <<>>
    /\ elapsed = 0
    /\ smInitialized = FALSE
    /\ smInitResult = "none"
    /\ smCapabilities = "none"
    /\ accepted = 0

\* NewTCPLanguageClient (part_006:26-37) and NewWebSocketLanguageClient
\* (part_007:28-39): the status is Connecting; nothing is dialled yet.
InitConnectRest ==
    /\ lcPc = "dial"
    /\ attempt = 1
    /\ stream = "none"
    /\ monPc = "none"
    /\ lcStatus = "connecting"

InitConnectVars == transport = "tcp" /\ InitConnectRest

\* The state of the services when they are constructed.
InitServiceRest == InitAutoVars /\ InitProgressVars /\ InitLifeVars /\ InitStartVars
InitServiceVars == InitServiceRest /\ InitConnectVars

\* NewMCPLSPBridge: no clients; warm-up neither running nor done.
InitBridgeFields ==
    /\ statusOut = [ready |-> FALSE, state |-> "none", connected |-> 0, indexing |-> "none"]
    /\ warmupRunning = FALSE /\ warmupDone = FALSE /\ warmupErr = ""
    /\ warmupLastAttempt = 0
    /\ clock = 1
    /\ activeRuns = 0
    /\ gPc = "idle" /\ gOut = "none" /\ gRetry = 0 /\ gPolls = 0

InitBridgeRest == InitBridgeFields /\ InitServiceVars

InitBridgeVars == clients = <<>> /\ bridgeKind = "concrete" /\ InitBridgeRest

\* The lsp_status tool: BuildLSPStatus applied to the current clients.
LspStatus ==
    /\ component = "status"
    /\ statusOut.state = "none"
    /\ statusOut' = BuildLSPStatus(clients)
    /\ UNCHANGED <<component, toolVars, serviceVars, clientVars, daemonVars, clients, bridgeKind,
                   warmupRunning, warmupDone, warmupErr, warmupLastAttempt, clock,
                   activeRuns, gPc, gOut, gRetry, gPolls>>

\* StartWarmup, lines 116-118: the throttle (time.Time zero is 0 here).
Throttled == warmupLastAttempt # 0 /\ clock - warmupLastAttempt < WarmupThrottle

\* A faulty start condition without the running check: what C10 must exclude.
MayStartUnlessDone == ~warmupDone

\* StartWarmup, lines 122-129, and SyncWarmup, lines 160-168: a run starts
\* only when warm-up is neither done nor running.
MayStartRun == ~warmupDone /\ ~warmupRunning

\* StartWarmup, lines 111-138, as a relation on the warm-up fields: the
\* whole body runs under warmupMu.
StartWarmupBody ==
    IF Throttled
      THEN UNCHANGED <<warmupRunning, warmupDone, warmupErr, warmupLastAttempt, activeRuns>>
      ELSE /\ warmupLastAttempt' = clock
           /\ IF MayStartRun
                THEN /\ warmupRunning' = TRUE
                     /\ warmupErr' = ""
                     /\ activeRuns' = activeRuns + 1
                     /\ UNCHANGED warmupDone
                ELSE UNCHANGED <<warmupRunning, warmupDone, warmupErr, activeRuns>>

\* The goroutine of StartAutoConnect, lines 50-60, after its connection
\* attempts (see ClientChange): it calls StartWarmup and returns.
StartWarmup ==
    /\ component = "bridge" /\ bridgeKind = "concrete"
    /\ connectTasks > 0
    /\ connectTasks' = connectTasks - 1
    /\ StartWarmupBody
    /\ UNCHANGED <<component, toolVars, progressVars, lifeVars, startVars, connectVars, autoConnectMu, autoConnectLastAttempt, syncPc,
                   warmupFinishedAt, clientVars, daemonVars, clients, statusOut, bridgeKind,
                   clock, gPc, gOut, gRetry, gPolls>>

\* SyncWarmup, lines 157-181: no throttle; the critical section marks the
\* run started, then runWarmup runs in the caller.
SyncWarmup ==
    /\ component = "bridge" /\ bridgeKind = "concrete"
    /\ IF MayStartRun
         THEN /\ warmupRunning' = TRUE
              /\ warmupLastAttempt' = clock
              /\ warmupErr' = ""
              /\ activeRuns' = activeRuns + 1
              /\ UNCHANGED warmupDone
         ELSE UNCHANGED <<warmupRunning, warmupDone, warmupErr, warmupLastAttempt, activeRuns>>
    /\ UNCHANGED <<component, toolVars, serviceVars, clientVars, daemonVars, clients, statusOut, bridgeKind,
                   clock, gPc, gOut, gRetry, gPolls>>

\* runWarmup, lines 183-284, ending in finishWarmup, lines 140-152: the run
\* fails when no allowed directory is configured, else it succeeds.
RunWarmupFinish(ok) ==
    /\ component = "bridge"
    /\ activeRuns > 0
    /\ activeRuns' = activeRuns - 1
    /\ warmupRunning' = FALSE
    /\ warmupFinishedAt' = clock
    /\ IF ok THEN warmupErr' = "" /\ warmupDone' = TRUE
             ELSE warmupErr' = "warmup: no allowed directories configured" /\ warmupDone' = FALSE
    /\ UNCHANGED <<component, toolVars, progressVars, lifeVars, startVars, connectVars, autoConnectMu, autoConnectLastAttempt,
                   connectTasks, syncPc, clientVars, daemonVars, clients, statusOut, bridgeKind,
                   warmupLastAttempt, clock, gPc, gOut, gRetry, gPolls>>

\* Time passes.
Tick ==
    /\ component = "bridge" /\ bridgeKind = "concrete"
    /\ clock + TickSeconds <= MaxClock
    /\ clock' = clock + TickSeconds
    /\ UNCHANGED <<component, toolVars, serviceVars, clientVars, daemonVars, clients, statusOut, bridgeKind,
                   warmupRunning, warmupDone, warmupErr, warmupLastAttempt,
                   activeRuns, gPc, gOut, gRetry, gPolls>>

\* A client connects, disconnects or changes its status in the background
\* (GetClientForLanguage in the auto-connect goroutine, the client's own
\* goroutines): one entry of b.clients changes at a time.
SetClient(cl, s, c) == [t \in (DOMAIN cl) \cup {s} |-> IF t = s THEN c ELSE cl[t]]
RemoveClient(cl, s) == [t \in (DOMAIN cl) \ {s} |-> cl[t]]

ClientChange ==
    /\ component = "bridge" /\ bridgeKind = "concrete"
    /\ \E s \in Servers :
          \/ \E c \in BridgeClients : clients' = SetClient(clients, s, c) /\ clients' # clients
          \/ s \in DOMAIN clients /\ clients' = RemoveClient(clients, s)
    /\ UNCHANGED <<component, toolVars, serviceVars, clientVars, daemonVars, statusOut, bridgeKind,
                   warmupRunning, warmupDone, warmupErr, warmupLastAttempt, clock,
                   activeRuns, gPc, gOut, gRetry, gPolls>>

\* A faulty gate that passes whenever no warm-up is running: what C9 must
\* exclude.
PassUnlessRunning(cl) == AllClientsInSessionMode(cl) \/ ~warmupRunning

\* CheckReadyOrReturn, lines 234 and 239 (268 and 272): with a ready
\* status the tool may run when all clients are in session mode or the
\* warm-up is done without error.
GateMayPass(cl) ==
    AllClientsInSessionMode(cl) \/ (warmupDone /\ warmupErr = "")

\* CheckReadyOrReturn, lines 231-249 and 264-284: the decision on a ready
\* status. It passes, or goes on to StartWarmup, or answers "warming" with
\* retry_after_ms 2000.
GateDecide ==
    IF GateMayPass(clients)
      THEN gPc' = "done" /\ gOut' = "pass" /\ gRetry' = 0
      ELSE IF ~warmupRunning /\ ~warmupDone
             THEN gPc' = "startWarmup" /\ UNCHANGED <<gOut, gRetry>>
             ELSE gPc' = "done" /\ gOut' = "warming" /\ gRetry' = 2000

\* CheckReadyOrReturn, lines 207-218: StartAutoConnect is called on a status
\* that is not ready, counts no connected client and is starting or error.
GateTriggersAutoConnect(status) ==
    ~status.ready /\ status.connected = 0 /\ status.state \in {"starting", "error"}

\* StartAutoConnect, lines 38-41: the throttle (time.Time zero is 0 here).
AutoConnectThrottled ==
    autoConnectLastAttempt # 0 /\ clock - autoConnectLastAttempt < AutoConnectThrottle

\* StartAutoConnect, lines 34-61, called by the gate: the call takes
\* autoConnectMu, and under it either returns on the throttle or records
\* the attempt and spawns the connect goroutine; then the gate polls.
StartAutoConnect ==
    /\ component = "bridge"
    /\ gPc = "autoConnect"
    /\ autoConnectMu = "free"
    /\ IF AutoConnectThrottled
         THEN UNCHANGED <<autoConnectLastAttempt, connectTasks>>
         ELSE /\ autoConnectLastAttempt' = clock
              /\ connectTasks' = connectTasks + 1
    /\ gPc' = "poll"
    /\ UNCHANGED <<component, toolVars, progressVars, lifeVars, startVars, connectVars, clientVars, daemonVars, clients, statusOut, bridgeKind,
                   warmupRunning, warmupDone, warmupErr, warmupLastAttempt, clock,
                   activeRuns, gOut, gRetry, gPolls, autoConnectMu, syncPc,
                   warmupFinishedAt>>

\* SyncAutoConnect, lines 67-74: the caller takes autoConnectMu and records
\* the attempt, with no throttle; the mutex is held while it connects.
SyncAutoConnectBegin ==
    /\ component = "bridge" /\ bridgeKind = "concrete"
    /\ syncPc = "idle"
    /\ autoConnectMu = "free"
    /\ autoConnectMu' = "sync"
    /\ autoConnectLastAttempt' = clock
    /\ syncPc' = "connecting"
    /\ UNCHANGED <<component, toolVars, progressVars, lifeVars, startVars, connectVars, clientVars, daemonVars, bridgeVars, connectTasks,
                   warmupFinishedAt>>

\* SyncAutoConnect, lines 79-93: the connection attempts are over (see
\* ClientChange); the deferred Unlock runs as the call returns.
SyncAutoConnectEnd ==
    /\ component = "bridge"
    /\ syncPc = "connecting"
    /\ autoConnectMu' = "free"
    /\ syncPc' = "idle"
    /\ UNCHANGED <<component, toolVars, progressVars, lifeVars, startVars, connectVars, clientVars, daemonVars, bridgeVars,
                   autoConnectLastAttempt, connectTasks, warmupFinishedAt>>

\* CheckReadyOrReturn, lines 203-222: a tool call enters the gate. With the
\* concrete bridge the status is built and StartAutoConnect called when no
\* client is connected; any other bridge goes straight to line 254.
GateBegin ==
    /\ component = "bridge"
    /\ gPc = "idle"
    /\ gPc' = IF bridgeKind # "concrete" THEN "final"
              ELSE IF GateTriggersAutoConnect(BuildLSPStatus(clients))
                     THEN "autoConnect" ELSE "poll"
    /\ gOut' = "none" /\ gRetry' = 0 /\ gPolls' = 0
    /\ UNCHANGED <<component, toolVars, serviceVars, clientVars, daemonVars, clients, statusOut, bridgeKind,
                   warmupRunning, warmupDone, warmupErr, warmupLastAttempt, clock,
                   activeRuns>>

\* CheckReadyOrReturn, lines 226-251: one turn of the 2 s polling loop. The
\* deadline has passed, or the status is built: when ready the decision is
\* taken, else the loop sleeps 200 ms.
GatePoll ==
    /\ component = "bridge"
    /\ gPc = "poll"
    /\ \/ /\ gPc' = "final"
          /\ UNCHANGED <<gOut, gRetry, gPolls>>
       \/ /\ gPolls < MaxPolls
          /\ IF BuildLSPStatus(clients).ready
               THEN GateDecide /\ UNCHANGED gPolls
               ELSE gPolls' = gPolls + 1 /\ UNCHANGED <<gPc, gOut, gRetry>>
    /\ UNCHANGED <<component, toolVars, serviceVars, clientVars, daemonVars, clients, statusOut, bridgeKind,
                   warmupRunning, warmupDone, warmupErr, warmupLastAttempt, clock,
                   activeRuns>>

\* CheckReadyOrReturn, lines 242-248 and 274-280: StartWarmup, then the
\* "warming" payload with retry_after_ms 2000.
GateStartWarmup ==
    /\ component = "bridge"
    /\ gPc = "startWarmup"
    /\ StartWarmupBody
    /\ gPc' = "done" /\ gOut' = "warming" /\ gRetry' = 2000
    /\ UNCHANGED <<component, toolVars, serviceVars, clientVars, daemonVars, clients, statusOut, bridgeKind,
                   clock, gPolls>>

\* A faulty retry hint given for every state: what C26 must exclude.
RetryAlways(state) == 2000

\* CheckReadyOrReturn, lines 284-287: retryAfterMs of a status that is not
\* ready. FormatLSPStatusResponse marshals it with omitempty (line 56), so
\* that 0 stands for a payload without retry_after_ms.
RetryAfterMs(state) == IF state \in {"busy", "starting"} THEN 2000 ELSE 0

\* CheckReadyOrReturn, lines 254-292: after the loop. A bridge without
\* status introspection passes; a ready status is decided as in the loop;
\* any other status is returned with retry_after_ms 2000 when busy or
\* starting, else 0.
GateFinal ==
    /\ component = "bridge"
    /\ gPc = "final"
    /\ IF bridgeKind # "concrete"
         THEN gPc' = "done" /\ gOut' = "pass" /\ gRetry' = 0
         ELSE IF BuildLSPStatus(clients).ready
                THEN GateDecide
                ELSE /\ gPc' = "done" /\ gOut' = "status"
                     /\ gRetry' = RetryAfterMs(BuildLSPStatus(clients).state)
    /\ UNCHANGED <<component, toolVars, serviceVars, clientVars, daemonVars, clients, statusOut, bridgeKind,
                   warmupRunning, warmupDone, warmupErr, warmupLastAttempt, clock,
                   activeRuns, gPolls>>

\* The tool call is over; the next one may enter the gate.
GateReturn ==
    /\ component = "bridge"
    /\ gPc = "done"
    /\ gPc' = "idle" /\ gOut' = "none" /\ gRetry' = 0 /\ gPolls' = 0
    /\ UNCHANGED <<component, toolVars, serviceVars, clientVars, daemonVars, clients, statusOut, bridgeKind,
                   warmupRunning, warmupDone, warmupErr, warmupLastAttempt, clock,
                   activeRuns>>

(* ------------------------------ call graph ---------------------------- *)
(* The call_graph tool (src/mcpserver/tools/range_formatting.go). The      *)
(* language server's call hierarchy is a function from a symbol to the     *)
(* symbols it calls; a symbol stands for its uri:line:character key. The   *)
(* builder runs buildIncomingTree and buildOutgoingTree of the root in two *)
(* goroutines, and every expansion spawns one goroutine per call. A task   *)
(* is one such goroutine, named by its direction and the path of symbols   *)
(* from the root to its node; the two root tasks have the empty path. The  *)
(* node of a task is in the result tree once the task is done, as a child  *)
(* of the node of its parent task. Steps are atomic between lock sections. *)

\* The symbol the tool is queried at.
Root == 1
Syms == 1..(MaxFan + 1)

NoCalls == [s \in Syms |-> {}]
\* A -> B -> A
CycleGraph == [NoCalls EXCEPT ![1] = {2}, ![2] = {1}]

\* The requests of the tool: the hierarchy behind the queried position and
\* the parameters depth_up, depth_down and max_nodes. The hierarchies are
\* the cycle, the diamond A -> B, A -> C, B -> D, C -> D, the chain
\* A -> B -> C, and A calling MaxFan symbols that call nothing.
Queries ==
    LET Query(g, down, max) ==
            [graph |-> g, depthUp |-> DefaultDepthUp, depthDown |-> down,
             maxNodes |-> max]
    IN  { Query(CycleGraph, 10, 100),
          Query([NoCalls EXCEPT ![1] = {2, 3}, ![2] = {4}, ![3] = {4}],
                DefaultDepthDown, DefaultMaxNodes),
          Query([NoCalls EXCEPT ![1] = {2}, ![2] = {3}], 1, DefaultMaxNodes),
          Query([NoCalls EXCEPT ![1] = Syms \ {Root}], DefaultDepthDown, 2) }

TimeoutReason == "timeout after 60 seconds"
MaxNodesReason == "max_nodes limit reached"

RootTasks == {<<"up", <<>>>>, <<"down", <<>>>>}

\* Builder created, root node built by itemToNode, both root goroutines
\* about to enter build*Tree(root, 1).
InitBuilder(q) ==
    /\ hierarchy = q.graph
    /\ depthUp = q.depthUp
    /\ depthDown = q.depthDown
    /\ maxNodes = q.maxNodes
    /\ visited = {}
    /\ nodeCount = 1
    /\ cyclesFound = 0
    /\ truncated = FALSE
    /\ truncateReason = ""
    /\ maxDepthUp = 0
    /\ maxDepthDown = 0
    /\ ctxDone = FALSE
    /\ tasks = [t \in RootTasks |-> [pc |-> "top", todo |-> {}, isCycle |-> FALSE]]
    /\ cutCauses = {}
    /\ returned = FALSE

\* The values the call-graph variables keep in the other specifications.
InitGraphVars ==
    /\ hierarchy = NoCalls
    /\ depthUp = DefaultDepthUp
    /\ depthDown = DefaultDepthDown
    /\ maxNodes = DefaultMaxNodes
    /\ visited = {}
    /\ nodeCount = 0
    /\ cyclesFound = 0
    /\ truncated = FALSE
    /\ truncateReason = ""
    /\ maxDepthUp = 0
    /\ maxDepthDown = 0
    /\ ctxDone = FALSE
    /\ tasks = <<>>
    /\ cutCauses = {}
    /\ returned = FALSE

\* The item a task's goroutine works on.
SymOf(t) == IF t[2] = <<>> THEN Root ELSE t[2][Len(t[2])]
\* The depth argument of the task's call of build*Tree.
DepthOf(t) == Len(t[2]) + 1
ParentOf(t) == <<t[1], SubSeq(t[2], 1, Len(t[2]) - 1)>>
ChildrenOf(t) ==
    {c \in DOMAIN tasks : c[2] # <<>> /\ ParentOf(c) = t}
\* IncomingCalls / OutgoingCalls of the language server.
CallsOf(d, s) ==
    IF d = "down" THEN hierarchy[s] ELSE {r \in Syms : s \in hierarchy[r]}
\* A faulty semaphore whose slots are never given back: what C39 must exclude.
HoldingForever(t) ==
    {c \in ChildrenOf(t) : tasks[c].pc # "spawned"}

\* Goroutines of one expansion that hold a slot of its semaphore.
Holding(t) ==
    {c \in ChildrenOf(t) : tasks[c].pc \notin {"spawned", "done"}}

\* setTruncated: the first reason wins.
SetTruncated(reason) ==
    /\ truncated' = TRUE
    /\ truncateReason' = IF truncated THEN truncateReason ELSE reason

\* The goroutine takes a slot of the semaphore and reads visited[nodeKey].
CheckCycle ==
    /\ component = "graph"
    /\ \E t \in DOMAIN tasks :
        /\ tasks[t].pc = "spawned"
        /\ Cardinality(Holding(ParentOf(t))) < SemaphoreWidth
        /\ tasks' = [tasks EXCEPT ![t].pc = "node",
                                  ![t].isCycle = (SymOf(t) \in visited)]
    /\ UNCHANGED <<component, coreVars, serviceVars, pathVars, handlerVars, hierarchy, depthUp, depthDown, maxNodes,
                   visited, nodeCount, cyclesFound, truncated, truncateReason,
                   maxDepthUp, maxDepthDown, ctxDone, cutCauses, returned>>

\* itemToNode of the goroutine: the node is counted whatever the cap.
ItemToNode ==
    /\ component = "graph"
    /\ \E t \in DOMAIN tasks :
        /\ tasks[t].pc = "node"
        /\ nodeCount' = nodeCount + 1
        /\ tasks' = [tasks EXCEPT
                       ![t].pc = IF tasks[t].isCycle THEN "cycle" ELSE "mark"]
    /\ UNCHANGED <<component, coreVars, serviceVars, pathVars, handlerVars, hierarchy, depthUp, depthDown, maxNodes,
                   visited, cyclesFound, truncated, truncateReason,
                   maxDepthUp, maxDepthDown, ctxDone, cutCauses, returned>>

\* A revisit: the node is a leaf with IsCycle, appended to the container.
CycleLeaf ==
    /\ component = "graph"
    /\ \E t \in DOMAIN tasks :
        /\ tasks[t].pc = "cycle"
        /\ cyclesFound' = cyclesFound + 1
        /\ tasks' = [tasks EXCEPT ![t].pc = "done"]
    /\ UNCHANGED <<component, coreVars, serviceVars, pathVars, handlerVars, hierarchy, depthUp, depthDown, maxNodes,
                   visited, nodeCount, truncated, truncateReason,
                   maxDepthUp, maxDepthDown, ctxDone, cutCauses, returned>>

\* visited[nodeKey] = true, in a lock section of its own.
MarkVisited ==
    /\ component = "graph"
    /\ \E t \in DOMAIN tasks :
        /\ tasks[t].pc = "mark"
        /\ visited' = visited \cup {SymOf(t)}
        /\ tasks' = [tasks EXCEPT ![t].pc = "top"]
    /\ UNCHANGED <<component, coreVars, serviceVars, pathVars, handlerVars, hierarchy, depthUp, depthDown, maxNodes,
                   nodeCount, cyclesFound, truncated, truncateReason,
                   maxDepthUp, maxDepthDown, ctxDone, cutCauses, returned>>

\* What the head of build*Tree decides for task t.
TopOutcome(t) ==
    IF ctxDone THEN "timeout"
    ELSE IF DepthOf(t) > (IF t[1] = "up" THEN depthUp ELSE depthDown) THEN "depth"
    ELSE IF nodeCount >= maxNodes THEN "max_nodes"
    ELSE IF CallsOf(t[1], SymOf(t)) = {} THEN "empty"
    ELSE "expand"

\* The head of buildIncomingTree / buildOutgoingTree: the checks of the
\* timeout, the depth cap and the node cap, then the calls of the item. A
\* nil result ends the goroutine: its node is appended without children.
BuildTree ==
    /\ component = "graph"
    /\ \E t \in DOMAIN tasks :
        /\ tasks[t].pc = "top"
        /\ LET out == TopOutcome(t)
               d == t[1]
               calls == CallsOf(d, SymOf(t))
               deeper == out \in {"empty", "expand"}
           IN  /\ tasks' = [tasks EXCEPT
                              ![t].pc = IF out = "expand" THEN "loop" ELSE "done",
                              ![t].todo = IF out = "expand" THEN calls ELSE {}]
               /\ IF out = "timeout" THEN SetTruncated(TimeoutReason)
                  ELSE IF out = "max_nodes" THEN SetTruncated(MaxNodesReason)
                  ELSE UNCHANGED <<truncated, truncateReason>>
               /\ maxDepthUp' = IF deeper /\ d = "up" /\ DepthOf(t) > maxDepthUp
                                THEN DepthOf(t) ELSE maxDepthUp
               /\ maxDepthDown' = IF deeper /\ d = "down" /\ DepthOf(t) > maxDepthDown
                                  THEN DepthOf(t) ELSE maxDepthDown
               /\ cutCauses' = IF out \in {"timeout", "max_nodes"}
                                  \/ (out = "depth" /\ calls # {})
                               THEN cutCauses \cup {out} ELSE cutCauses
    /\ UNCHANGED <<component, coreVars, serviceVars, pathVars, handlerVars, hierarchy, depthUp, depthDown, maxNodes,
                   visited, nodeCount, cyclesFound, ctxDone, returned>>

\* One iteration of the loop over the calls: the node cap is checked before
\* the goroutine of the call is spawned; an elapsed timeout sets truncated
\* and the goroutine is spawned all the same (the break leaves the select).
SpawnLoop ==
    /\ component = "graph"
    /\ \E t \in DOMAIN tasks :
        /\ tasks[t].pc = "loop"
        /\ IF nodeCount >= maxNodes
           THEN /\ SetTruncated(MaxNodesReason)
                /\ cutCauses' = cutCauses \cup {"max_nodes"}
                /\ tasks' = [tasks EXCEPT ![t].pc = "wait"]
           ELSE LET c == CHOOSE x \in tasks[t].todo :
                                \A y \in tasks[t].todo : x <= y
                    rest == tasks[t].todo \ {c}
                    child == <<t[1], Append(t[2], c)>>
                IN  /\ IF ctxDone THEN SetTruncated(TimeoutReason)
                       ELSE UNCHANGED <<truncated, truncateReason>>
                    /\ cutCauses' = cutCauses
                    /\ tasks' = [x \in DOMAIN tasks \cup {child} |->
                                   IF x = child
                                   THEN [pc |-> "spawned", todo |-> {},
                                         isCycle |-> FALSE]
                                   ELSE IF x = t
                                   THEN [tasks[t] EXCEPT
                                           !.todo = rest,
                                           !.pc = IF rest = {} THEN "wait" ELSE "loop"]
                                   ELSE tasks[x]]
    /\ UNCHANGED <<component, coreVars, serviceVars, pathVars, handlerVars, hierarchy, depthUp, depthDown, maxNodes,
                   visited, nodeCount, cyclesFound, maxDepthUp, maxDepthDown,
                   ctxDone, returned>>

\* wg.Wait of an expansion, then the node with its children is appended.
WaitChildren ==
    /\ component = "graph"
    /\ \E t \in DOMAIN tasks :
        /\ tasks[t].pc = "wait"
        /\ \A c \in ChildrenOf(t) : tasks[c].pc = "done"
        /\ tasks' = [tasks EXCEPT ![t].pc = "done"]
    /\ UNCHANGED <<component, coreVars, serviceVars, pathVars, handlerVars, hierarchy, depthUp, depthDown, maxNodes,
                   visited, nodeCount, cyclesFound, truncated, truncateReason,
                   maxDepthUp, maxDepthDown, ctxDone, cutCauses, returned>>

\* The 60 s of the timeout context elapse.
TimeoutElapses ==
    /\ component = "graph"
    /\ ~ctxDone
    /\ ~returned
    /\ ctxDone' = TRUE
    /\ UNCHANGED <<component, coreVars, serviceVars, pathVars, handlerVars, hierarchy, depthUp, depthDown, maxNodes,
                   visited, nodeCount, cyclesFound, truncated, truncateReason,
                   maxDepthUp, maxDepthDown, tasks, cutCauses, returned>>

\* wg.Wait of the tool handler, then the result is built from the builder.
ReturnResult ==
    /\ component = "graph"
    /\ ~returned
    /\ \A t \in RootTasks : tasks[t].pc = "done"
    /\ returned' = TRUE
    /\ UNCHANGED <<component, coreVars, serviceVars, pathVars, handlerVars, hierarchy, depthUp, depthDown, maxNodes,
                   visited, nodeCount, cyclesFound, truncated, truncateReason,
                   maxDepthUp, maxDepthDown, ctxDone, tasks, cutCauses>>

(* ------------------------- paths and file URIs ------------------------ *)
(* DockerPathMapper (src/utils/pathmap.go) and the file URI conversions    *)
(* (src/unnamed/part_004). A string is the sequence of its characters.     *)
(* The process runs on Linux, as in the container image: filepath is path, *)
(* FromSlash and ToSlash change nothing. A result is the returned string   *)
(* with ok, or an error.                                                   *)

FileScheme == <<"f", "i", "l", "e", ":", "/", "/">>
PathError == [ok |-> FALSE, val |-> <<>>]
Ok(s) == [ok |-> TRUE, val |-> s]

\* strings.ReplaceAll(p, "\\", "/")
ToSlashes(s) == [i \in 1..Len(s) |-> IF s[i] = "\\" THEN "/" ELSE s[i]]

\* strings.HasPrefix
HasPrefix(s, prefix) ==
    Len(s) >= Len(prefix) /\ SubSeq(s, 1, Len(prefix)) = prefix

\* strings.TrimPrefix
TrimPrefix(s, prefix) ==
    IF HasPrefix(s, prefix) THEN SubSeq(s, Len(prefix) + 1, Len(s)) ELSE s

\* strings.EqualFold, on the letters of the model's strings.
EqualFold(a, b) ==
    LET Lower(c) == CASE c = "A" -> "a" [] c = "B" -> "b" [] c = "C" -> "c"
                      [] c = "D" -> "d" [] c = "P" -> "p" [] OTHER -> c
    IN  Len(a) = Len(b) /\ \A i \in 1..Len(a) : Lower(a[i]) = Lower(b[i])

\* path.Clean: the segments between slashes, without the empty ones and
\* ".", each ".." removing the segment before it (none above the root of a
\* rooted path; kept at the head of a relative one).
Clean(s) ==
    LET rooted == Len(s) > 0 /\ s[1] = "/"
        RECURSIVE Split(_, _, _)
        Split(i, cur, acc) ==
            IF i > Len(s) THEN Append(acc, cur)
            ELSE IF s[i] = "/" THEN Split(i + 1, <<>>, Append(acc, cur))
            ELSE Split(i + 1, Append(cur, s[i]), acc)
        segs == Split(1, <<>>, <<>>)
        RECURSIVE Resolve(_, _)
        Resolve(i, st) ==
            IF i > Len(segs) THEN st
            ELSE IF segs[i] = <<>> \/ segs[i] = <<".">> THEN Resolve(i + 1, st)
            ELSE IF segs[i] = <<".", ".">>
            THEN IF Len(st) > 0 /\ st[Len(st)] # <<".", ".">>
                 THEN Resolve(i + 1, SubSeq(st, 1, Len(st) - 1))
                 ELSE IF rooted THEN Resolve(i + 1, st)
                 ELSE Resolve(i + 1, Append(st, segs[i]))
            ELSE Resolve(i + 1, Append(st, segs[i]))
        out == Resolve(1, <<>>)
        RECURSIVE Joined(_)
        Joined(k) ==
            IF k > Len(out) THEN <<>>
            ELSE (IF k > 1 THEN <<"/">> ELSE <<>>) \o out[k] \o Joined(k + 1)
    IN  IF rooted THEN <<"/">> \o Joined(1)
        ELSE IF Joined(1) = <<>> THEN <<".">>
        ELSE Joined(1)

normalizePathSeparators(p) == Clean(ToSlashes(p))

hasPrefixFold(p, prefix) ==
    Len(p) >= Len(prefix) /\ EqualFold(SubSeq(p, 1, Len(prefix)), prefix)

IsWindowsAbsPath(p) ==
    /\ Len(p) >= 2
    /\ p[1] \in {"a", "b", "d", "p", "A", "B", "C", "D", "P"}
    /\ p[2] = ":"

\* url.PathUnescape, also the unescaping of the path by url.Parse: "%" and
\* two hex digits are one byte, "%" before anything else is an error. The
\* bytes outside the model's characters are "?".
PathUnescape(s) ==
    LET Hex == {"0", "1", "2", "4", "5", "a", "b", "d", "A", "B", "C", "D"}
        Byte(h, l) == CASE h = "2" /\ l = "0" -> " "
                        [] h = "2" /\ l = "5" -> "%"
                        [] h = "4" /\ l = "1" -> "A"
                        [] h = "5" /\ l = "C" -> "\\"
                        [] OTHER -> "?"
        RECURSIVE Valid(_)
        Valid(i) ==
            IF i > Len(s) THEN TRUE
            ELSE IF s[i] = "%"
            THEN /\ i + 2 <= Len(s)
                 /\ s[i + 1] \in Hex
                 /\ s[i + 2] \in Hex
                 /\ Valid(i + 3)
            ELSE Valid(i + 1)
        RECURSIVE Decoded(_)
        Decoded(i) ==
            IF i > Len(s) THEN <<>>
            ELSE IF s[i] = "%" THEN <<Byte(s[i + 1], s[i + 2])>> \o Decoded(i + 3)
            ELSE <<s[i]>> \o Decoded(i + 1)
    IN  IF Valid(1) THEN Ok(Decoded(1)) ELSE PathError

\* url.Parse splits "file:" from the rest, the rest into the authority
\* after "//" and the path, and unescapes the path; FileURIToPath unescapes
\* the path again and strips the slash before a drive letter.
FileURIToPath(uri) ==
    LET rest == SubSeq(uri, 6, Len(uri))
        hasAuthority == HasPrefix(rest, <<"/", "/">>)
        afterSlashes == SubSeq(rest, 3, Len(rest))
        hostLen == IF \E i \in 1..Len(afterSlashes) : afterSlashes[i] = "/"
                   THEN (CHOOSE i \in 1..Len(afterSlashes) :
                            /\ afterSlashes[i] = "/"
                            /\ \A j \in 1..(i - 1) : afterSlashes[j] # "/") - 1
                   ELSE Len(afterSlashes)
        host == IF hasAuthority THEN SubSeq(afterSlashes, 1, hostLen) ELSE <<>>
        rawPath == IF hasAuthority
                   THEN SubSeq(afterSlashes, hostLen + 1, Len(afterSlashes))
                   ELSE rest
        parsed == PathUnescape(rawPath)
        again == PathUnescape(parsed.val)
        p == again.val
    IN  IF ~HasPrefix(uri, <<"f", "i", "l", "e", ":">>) THEN PathError
        ELSE IF ~parsed.ok \/ ~again.ok THEN PathError
        ELSE IF host # <<>> THEN Ok(<<"/", "/">> \o host \o p)
        ELSE IF HasPrefix(p, <<"/">>) /\ Len(p) >= 3 /\ p[3] = ":"
        THEN Ok(SubSeq(p, 2, Len(p)))
        ELSE Ok(p)

\* PathToFileURI: TrimSpace, filepath.Abs unless the path has a drive
\* letter, the separators, the slash before a drive letter, and the
\* escaping of url.URL.String.
PathToFileURI(path) ==
    LET RECURSIVE TrimLeft(_)
        TrimLeft(s) == IF s # <<>> /\ s[1] = " " THEN TrimLeft(Tail(s)) ELSE s
        RECURSIVE TrimRight(_)
        TrimRight(s) == IF s # <<>> /\ s[Len(s)] = " "
                        THEN TrimRight(SubSeq(s, 1, Len(s) - 1)) ELSE s
        trimmed == TrimRight(TrimLeft(path))
        isWindowsAbs == IsWindowsAbsPath(trimmed)
        cwd == <<"/", "w">>
        abs == IF HasPrefix(trimmed, <<"/">>) THEN Clean(trimmed)
               ELSE Clean(cwd \o <<"/">> \o trimmed)
        RECURSIVE Collapse(_)
        Collapse(s) ==
            IF Len(s) < 2 THEN s
            ELSE IF s[1] = "/" /\ s[2] = "/"
            THEN <<"/">> \o Collapse(SubSeq(s, 3, Len(s)))
            ELSE <<s[1]>> \o Collapse(Tail(s))
        slashPath == IF isWindowsAbs THEN Collapse(ToSlashes(trimmed))
                     ELSE Clean(abs)
        uriPath == IF Len(slashPath) >= 2 /\ slashPath[2] = ":"
                   THEN <<"/">> \o slashPath ELSE slashPath
        Escaped(c) == CASE c = " " -> <<"%", "2", "0">>
                        [] c = "%" -> <<"%", "2", "5">>
                        [] c = "\\" -> <<"%", "5", "C">>
                        [] OTHER -> <<c>>
        RECURSIVE EscapedPath(_)
        EscapedPath(i) ==
            IF i > Len(uriPath) THEN <<>>
            ELSE Escaped(uriPath[i]) \o EscapedPath(i + 1)
    IN  IF trimmed = <<>> THEN PathError
        ELSE Ok(FileScheme \o EscapedPath(1))

NewDockerPathMapper(hostRoot, containerRoot) ==
    [hostRoot |-> normalizePathSeparators(hostRoot),
     containerRoot |->
        IF containerRoot # <<>> /\ containerRoot[Len(containerRoot)] = "/"
        THEN SubSeq(containerRoot, 1, Len(containerRoot) - 1)
        ELSE containerRoot]

HostToContainer(m, hostPath) ==
    LET isURI == HasPrefix(hostPath, FileScheme)
        filePath == IF isURI THEN FileURIToPath(hostPath) ELSE Ok(hostPath)
        cleanPath == normalizePathSeparators(filePath.val)
        relativePath ==
            TrimPrefix(SubSeq(cleanPath, Len(m.hostRoot) + 1, Len(cleanPath)),
                       <<"/">>)
        containerPath ==
            IF relativePath = <<>> THEN Clean(m.containerRoot)
            ELSE Clean(Clean(m.containerRoot \o <<"/">> \o relativePath))
    IN  IF hostPath = <<>> THEN PathError
        ELSE IF ~filePath.ok THEN PathError
        ELSE IF ~hasPrefixFold(cleanPath, m.hostRoot) THEN PathError
        ELSE IF isURI THEN Ok(FileScheme \o containerPath)
        ELSE Ok(containerPath)

ContainerToHost(m, containerPath) ==
    LET cleanPath == normalizePathSeparators(containerPath)
        relativePath ==
            TrimPrefix(TrimPrefix(cleanPath, m.containerRoot), <<"/">>)
        hostPath ==
            IF relativePath = <<>> THEN Clean(m.hostRoot)
            ELSE Clean(Clean(m.hostRoot \o <<"/">> \o relativePath))
    IN  IF containerPath = <<>> THEN PathError
        ELSE IF ~HasPrefix(cleanPath, m.containerRoot) THEN PathError
        ELSE Ok(hostPath)

\* The configured root pairs: /pa and D:\Pa mounted at /d.
Mappers ==
    { NewDockerPathMapper(<<"/", "p", "a">>, <<"/", "d">>),
      NewDockerPathMapper(<<"D", ":", "\\", "P", "a">>, <<"/", "d", "/">>) }

\* The inputs: up to MaxSegs segments after the root of a POSIX path, of a
\* drive-letter path with either separator, or of the file URI of one.
PathInputs ==
    LET Words == { <<"p", "a">>, <<"P", "a">>, <<"p", "a", "b">>, <<"b">>,
                   <<"d">>, <<"a", " ", "b">>, <<".", ".">>,
                   <<"%", "4", "1">>, <<"a", "%">> }
        Heads == { <<<<"/">>, "/">>, <<<<"D", ":", "/">>, "/">>,
                   <<<<"D", ":", "\\">>, "\\">>, <<<<"d", ":", "\\">>, "\\">>,
                   <<FileScheme \o <<"/">>, "/">>,
                   <<FileScheme \o <<"/", "D", ":", "/">>, "/">> }
        Lists == UNION { [1..n -> Words] : n \in 1..MaxSegs }
        RECURSIVE Joined(_, _, _)
        Joined(l, sep, k) ==
            IF k > Len(l) THEN <<>>
            ELSE (IF k > 1 THEN <<sep>> ELSE <<>>) \o l[k] \o Joined(l, sep, k + 1)
    IN  { h[1] \o Joined(l, h[2], 1) : h \in Heads, l \in Lists }

InitPathVars ==
    /\ dpm = NewDockerPathMapper(<<"/", "p", "a">>, <<"/", "d">>)
    /\ pathIn = <<>>
    /\ pathOp = "none"
    /\ pathPc = 0
    /\ pathMid = PathError
    /\ pathEnd = PathError

\* A call of HostToContainer on the input, or on the host path that
\* ContainerToHost returned for the input.
CallHostToContainer ==
    /\ component = "path"
    /\ \/ /\ pathPc = 0
          /\ pathMid' = HostToContainer(dpm, pathIn)
          /\ pathOp' = "HostToContainer"
          /\ pathPc' = 1
          /\ UNCHANGED pathEnd
       \/ /\ pathPc = 1 /\ pathOp = "ContainerToHost" /\ pathMid.ok
          /\ pathEnd' = HostToContainer(dpm, pathMid.val)
          /\ pathPc' = 2
          /\ UNCHANGED <<pathOp, pathMid>>
    /\ UNCHANGED <<component, coreVars, serviceVars, graphVars, handlerVars, dpm, pathIn>>

\* A call of ContainerToHost on the input, or on what HostToContainer
\* returned for the input.
CallContainerToHost ==
    /\ component = "path"
    /\ \/ /\ pathPc = 0
          /\ pathMid' = ContainerToHost(dpm, pathIn)
          /\ pathOp' = "ContainerToHost"
          /\ pathPc' = 1
          /\ UNCHANGED pathEnd
       \/ /\ pathPc = 1 /\ pathOp = "HostToContainer" /\ pathMid.ok
          /\ pathEnd' = ContainerToHost(dpm, pathMid.val)
          /\ pathPc' = 2
          /\ UNCHANGED <<pathOp, pathMid>>
    /\ UNCHANGED <<component, coreVars, serviceVars, graphVars, handlerVars, dpm, pathIn>>

\* A call of PathToFileURI on the input.
CallPathToFileURI ==
    /\ component = "path"
    /\ pathPc = 0
    /\ pathMid' = PathToFileURI(pathIn)
    /\ pathOp' = "PathToFileURI"
    /\ pathPc' = 1
    /\ UNCHANGED <<component, coreVars, serviceVars, graphVars, handlerVars, dpm, pathIn, pathEnd>>

\* A call of FileURIToPath on the input, or on the URI that PathToFileURI
\* returned for the input.
CallFileURIToPath ==
    /\ component = "path"
    /\ \/ /\ pathPc = 0
          /\ pathMid' = FileURIToPath(pathIn)
          /\ pathOp' = "FileURIToPath"
          /\ pathPc' = 1
          /\ UNCHANGED pathEnd
       \/ /\ pathPc = 1 /\ pathOp = "PathToFileURI" /\ pathMid.ok
          /\ pathEnd' = FileURIToPath(pathMid.val)
          /\ pathPc' = 2
          /\ UNCHANGED <<pathOp, pathMid>>
    /\ UNCHANGED <<component, coreVars, serviceVars, graphVars, handlerVars, dpm, pathIn>>

(* --------------------------- client handler --------------------------- *)
(* ClientHandler.Handle (src/lsp/handler.go), which jsonrpc2 calls in its  *)
(* read loop for each message of the language server. A message is its     *)
(* method, whether it is a notification (no id), and its params: absent,   *)
(* well-formed or not. A reply is tagged with the position of the message  *)
(* it replies to.                                                          *)

Messages ==
    [method : {"$/progress", "#/progress", "window/workDoneProgress/create",
               "textDocument/publishDiagnostics", "window/showMessage",
               "window/logMessage", "client/registerCapability",
               "workspace/configuration", "workspace/applyEdit"},
     notif : BOOLEAN,
     params : {"nil", "ok", "bad"}]

InitHandlerVars ==
    /\ received = <<>>
    /\ replies = {}
    /\ progressUpdates = 0
    /\ panicked = FALSE

\* Handle(ctx, conn, req): the switch on req.Method. The branches that log
\* the params dereference req.Params, which panics when it is nil.
Handle(req) ==
    LET n == Len(received) + 1
        result == [re |-> n, kind |-> "result", code |-> 0]
        error == [re |-> n, kind |-> "error", code |-> CodeMethodNotFound]
        sent ==
            CASE req.method \in {"$/progress", "#/progress"} -> {}
              [] req.method \in {"window/workDoneProgress/create",
                                 "client/registerCapability",
                                 "workspace/configuration"} -> {result}
              [] req.method \in {"textDocument/publishDiagnostics",
                                 "window/showMessage", "window/logMessage"} -> {}
              [] OTHER -> IF req.notif THEN {} ELSE {error}
    IN  /\ component = "handler"
        /\ ~panicked
        /\ Len(received) < MaxMsgs
        /\ received' = Append(received, req)
        /\ replies' = replies \cup sent
        /\ progressUpdates' =
              IF req.method \in {"$/progress", "#/progress"} /\ req.params = "ok"
              THEN progressUpdates + 1 ELSE progressUpdates
        /\ panicked' =
              (/\ req.method \in {"textDocument/publishDiagnostics",
                                  "window/showMessage", "window/logMessage"}
               /\ req.params = "nil")
        /\ UNCHANGED <<component, coreVars, serviceVars, graphVars, pathVars>>

\* The values the tools' variables keep in the other specifications.
InitToolVars == InitGraphVars /\ InitPathVars /\ InitHandlerVars

(* --------------------------- specifications --------------------------- *)

InitClient ==
    /\ component = "client"
    /\ InitToolVars /\ InitClientVars /\ InitDaemonVars /\ InitBridgeVars

NextClient ==
    \/ \E c \in Calls : CallBegin(c)
    \/ \E c \in Calls : CallReconnect(c)
    \/ \E c \in Calls : CallReconnectInstall(c)
    \/ \E c \in Calls : CallRegister(c)
    \/ \E c \in Calls : CallGetConn(c)
    \/ \E c \in Calls : CallWrite(c)
    \/ \E c \in Calls : CallWriteFailed(c)
    \/ \E c \in Calls : CallReceive(c)
    \/ \E c \in Calls : CallTimeout(c)
    \/ \E c \in Calls : CallDefer(c)
    \/ \E r \in Readers : ReaderTop(r)
    \/ \E r \in Readers : ReaderDeliver(r)
    \/ \E r \in Readers : ReaderDeliverUnblock(r)
    \/ \E r \in Readers : ReaderFail(r)
    \/ \E r \in Readers : ReaderFailUnblock(r)
    \/ \E r \in Readers : ReaderReconnect(r)
    \/ \E r \in Readers : ReaderReconnectInstall(r)
    \/ Connect
    \/ Close
    \/ \E k \in Conns : DaemonReply(k)
    \/ \E k \in Conns : PeerGone(k)

SpecClient == InitClient /\ [][NextClient]_vars

InitDaemon ==
    /\ component = "daemon"
    /\ InitToolVars /\ InitClientVars /\ InitDaemonVars /\ InitBridgeVars

NextDaemon ==
    \/ \E h \in Handlers, u \in Uris : DidOpen(h, u)
    \/ \E h \in Handlers, u \in Uris : DidClose(h, u)
    \/ \E h \in Handlers : Notify(h)
    \/ \E h \in Handlers : Forward(h)
    \/ \E h \in Handlers : ReqWrite(h)
    \/ \E h \in Handlers : ReqReceive(h)
    \/ \E h \in Handlers : ReqTimeout(h)
    \/ \E h \in Handlers : ReqDefer(h)
    \/ \E q \in ChildRequests : ChildReply(q)
    \/ ChildExit

SpecDaemon == InitDaemon /\ [][NextDaemon]_vars

\* The daemon forwarding hover requests for one client while the child
\* sends notifications and requests of its own.
HoverClients == [methods |-> {"textDocument/hover"}, ids |-> {1}, malformed |-> FALSE]

InitChild ==
    /\ component = "daemon"
    /\ InitToolVars /\ InitClientVars /\ InitBridgeVars /\ InitDaemonRest
    /\ apiClients = HoverClients

NextChild ==
    \/ \E msg \in ServerNotifications \cup ServerRequests : ServerMessage(msg)
    \/ \E h \in Handlers : Forward(h)
    \/ \E h \in Handlers : ReqWrite(h)
    \/ \E h \in Handlers : ReqReceive(h)
    \/ \E h \in Handlers : ReqTimeout(h)
    \/ \E h \in Handlers : ReqDefer(h)
    \/ \E q \in ChildRequests : ChildReply(q)
    \/ ChildExit

SpecChild == InitChild /\ [][NextChild]_vars

InitStart ==
    /\ component = "start"
    /\ InitToolVars /\ InitClientVars /\ InitDaemonVars /\ InitBridgeVars

NextStart ==
    \/ StartChild
    \/ SendInitialize
    \/ \E kind \in {"result", "error"} : ChildAnswersInitialize(kind)
    \/ StartChildExit
    \/ StartTick
    \/ InitReceive
    \/ InitTimeout
    \/ SendInitialized
    \/ Listen
    \/ Accept

SpecStart == InitStart /\ [][NextStart]_vars

InitConnect ==
    /\ component = "connect"
    /\ InitToolVars /\ InitClientVars /\ InitDaemonVars
    /\ clients = <<>> /\ bridgeKind = "concrete" /\ InitBridgeFields
    /\ InitServiceRest /\ InitConnectRest
    /\ transport \in {"tcp", "ws"}

NextConnect ==
    \/ \E ok \in BOOLEAN : Dial(ok)
    \/ StreamDisconnects
    \/ CheckDisconnect
    \/ SpawnMonitor
    \/ MonitorDisconnect
    \/ SetConnected

SpecConnect == InitConnect /\ [][NextConnect]_vars

\* The methods API clients send: those the session client uses
\* (session_client.go:126-334), the daemon's own, and others of the protocol.
ApiMethods ==
    {"session/status", "session/capabilities",
     "textDocument/didOpen", "textDocument/didClose",
     "textDocument/hover", "textDocument/completion", "callHierarchy/incomingCalls",
     "workspace/symbol", "workspace/diagnostic", "workspace/executeCommand", "shutdown"}

\* The daemon serving API clients that use one method each, with ids that
\* may be equal on two connections, or that send lines that are no JSON.
InitApi ==
    /\ component = "daemon"
    /\ InitToolVars /\ InitClientVars /\ InitBridgeVars /\ InitDaemonRest
    /\ apiClients \in [methods : {{m} : m \in ApiMethods}, ids : {1..MaxApiId},
                        malformed : {FALSE}]
                           \cup [methods : {{}}, ids : {1..MaxApiId}, malformed : {TRUE}]

NextApi ==
    \/ \E h \in Handlers : Introspect(h)
    \/ \E h \in Handlers : UnknownMethod(h)
    \/ \E h \in Handlers : ParseError(h)
    \/ \E h \in Handlers, u \in Uris : DidOpen(h, u)
    \/ \E h \in Handlers, u \in Uris : DidClose(h, u)
    \/ \E h \in Handlers : Notify(h)
    \/ \E h \in Handlers : Forward(h)
    \/ \E h \in Handlers : ReqWrite(h)
    \/ \E h \in Handlers : ReqReceive(h)
    \/ \E h \in Handlers : ReqTimeout(h)
    \/ \E h \in Handlers : ReqDefer(h)
    \/ \E q \in ChildRequests : ChildReply(q)
    \/ ChildExit

SpecApi == InitApi /\ [][NextApi]_vars

InitSession ==
    /\ component \in {"client", "daemon"}
    /\ InitToolVars /\ InitClientVars /\ InitDaemonVars /\ InitBridgeVars

NextSession ==
    \/ \E c \in Calls : CallBegin(c)
    \/ \E c \in Calls : CallReconnect(c)
    \/ \E c \in Calls : CallReconnectInstall(c)
    \/ \E c \in Calls : CallRegister(c)
    \/ \E c \in Calls : CallGetConn(c)
    \/ \E c \in Calls : CallWrite(c)
    \/ \E c \in Calls : CallWriteFailed(c)
    \/ \E c \in Calls : CallReceive(c)
    \/ \E c \in Calls : CallTimeout(c)
    \/ \E c \in Calls : CallDefer(c)
    \/ \E r \in Readers : ReaderTop(r)
    \/ \E r \in Readers : ReaderDeliver(r)
    \/ \E r \in Readers : ReaderDeliverUnblock(r)
    \/ \E r \in Readers : ReaderFail(r)
    \/ \E r \in Readers : ReaderFailUnblock(r)
    \/ \E r \in Readers : ReaderReconnect(r)
    \/ \E r \in Readers : ReaderReconnectInstall(r)
    \/ Connect
    \/ Close
    \/ \E k \in Conns : DaemonReply(k)
    \/ \E k \in Conns : PeerGone(k)
    \/ \E h \in Handlers, u \in Uris : DidOpen(h, u)
    \/ \E h \in Handlers, u \in Uris : DidClose(h, u)
    \/ \E h \in Handlers : Notify(h)
    \/ \E h \in Handlers : Forward(h)
    \/ \E h \in Handlers : ReqWrite(h)
    \/ \E h \in Handlers : ReqReceive(h)
    \/ \E h \in Handlers : ReqTimeout(h)
    \/ \E h \in Handlers : ReqDefer(h)
    \/ \E q \in ChildRequests : ChildReply(q)
    \/ ChildExit

SpecSession == InitSession /\ [][NextSession]_vars

InitStatus ==
    /\ component = "status"
    /\ InitToolVars /\ InitClientVars /\ InitDaemonVars /\ InitBridgeRest
    /\ bridgeKind = "concrete"
    /\ clients \in ClientMaps(StatusClients)

NextStatus == LspStatus

SpecStatus == InitStatus /\ [][NextStatus]_vars

InitBridge ==
    /\ component = "bridge"
    /\ InitToolVars /\ InitClientVars /\ InitDaemonVars /\ InitBridgeRest
    /\ bridgeKind \in {"concrete", "other"}
    /\ clients = <<>>

NextBridge ==
    \/ StartAutoConnect
    \/ SyncAutoConnectBegin
    \/ SyncAutoConnectEnd
    \/ StartWarmup
    \/ SyncWarmup
    \/ \E ok \in BOOLEAN : RunWarmupFinish(ok)
    \/ Tick
    \/ ClientChange
    \/ GateBegin
    \/ GatePoll
    \/ GateStartWarmup
    \/ GateFinal
    \/ GateReturn

SpecBridge == InitBridge /\ [][NextBridge]_vars

InitGraph ==
    /\ component = "graph"
    /\ InitClientVars /\ InitDaemonVars /\ InitBridgeVars /\ InitPathVars /\ InitHandlerVars
    /\ \E q \in Queries : InitBuilder(q)

NextGraph ==
    \/ CheckCycle
    \/ ItemToNode
    \/ CycleLeaf
    \/ MarkVisited
    \/ BuildTree
    \/ SpawnLoop
    \/ WaitChildren
    \/ TimeoutElapses
    \/ ReturnResult

SpecGraph == InitGraph /\ [][NextGraph]_vars

\* The steps of the builder's goroutines. The Go scheduler runs a goroutine
\* that can take a step; the timeout need never elapse.
GraphStep ==
    \/ CheckCycle
    \/ ItemToNode
    \/ CycleLeaf
    \/ MarkVisited
    \/ BuildTree
    \/ SpawnLoop
    \/ WaitChildren
    \/ ReturnResult

\* A symbol with one callee more than a semaphore has slots, so that a
\* goroutine has to wait for a slot.
FanGraph == [NoCalls EXCEPT ![1] = 2..(SemaphoreWidth + 2)]

\* The requests the termination of the builds is checked on: the cycle,
\* the diamond and the fan.
FairQueries ==
    LET Query(g, down, max) ==
            [graph |-> g, depthUp |-> DefaultDepthUp, depthDown |-> down,
             maxNodes |-> max]
    IN  { Query(CycleGraph, 10, 100),
          Query([NoCalls EXCEPT ![1] = {2, 3}, ![2] = {4}, ![3] = {4}],
                DefaultDepthDown, DefaultMaxNodes),
          Query(FanGraph, 1, DefaultMaxNodes) }

InitGraphFair ==
    /\ component = "graph"
    /\ InitClientVars /\ InitDaemonVars /\ InitBridgeVars /\ InitPathVars /\ InitHandlerVars
    /\ \E q \in FairQueries : InitBuilder(q)

\* The timeout elapses at any moment of the builds of the cycle and of the
\* diamond; the builds of the fan are followed without it.
NextGraphFair ==
    \/ GraphStep
    \/ (hierarchy # FanGraph /\ TimeoutElapses)

\* The Go scheduler runs every goroutine that can take a step.
SpecGraphFair == InitGraphFair /\ [][NextGraphFair]_vars /\ WF_vars(GraphStep)

InitPath ==
    /\ component = "path"
    /\ InitClientVars /\ InitDaemonVars /\ InitBridgeVars /\ InitGraphVars /\ InitHandlerVars
    /\ dpm \in Mappers
    /\ pathIn \in PathInputs
    /\ pathOp = "none"
    /\ pathPc = 0
    /\ pathMid = PathError
    /\ pathEnd = PathError

NextPath ==
    \/ CallHostToContainer
    \/ CallContainerToHost
    \/ CallPathToFileURI
    \/ CallFileURIToPath

SpecPath == InitPath /\ [][NextPath]_vars

InitProgress ==
    /\ component = "progress"
    /\ InitToolVars /\ InitClientVars /\ InitDaemonVars /\ InitBridgeVars

NextProgress == \E params \in ProgressParams : Update(params)

SpecProgress == InitProgress /\ [][NextProgress]_vars

InitHandler ==
    /\ component = "handler"
    /\ InitClientVars /\ InitDaemonVars /\ InitBridgeVars /\ InitGraphVars /\ InitPathVars
    /\ InitHandlerVars

NextHandler == \E req \in Messages : Handle(req)

SpecHandler == InitHandler /\ [][NextHandler]_vars

(* ------------------- claims about the session client ------------------ *)

\* A reader blocked in a channel send, holding sc.mu, on the channel of a
\* call that is past its select (or has not reached it) and itself needs
\* sc.mu for its next step: neither can ever move again.
StuckReader(r) ==
    /\ rdPc[r] \in {"deliverBlocked", "failBlocked"}
    /\ callPc[rdCur[r]] \in {"getconn", "markbroken", "defer"}

\* C1: every Call made with a deadline eventually returns; no Call and no
\* reader step blocks forever on the client mutex or on a pending channel.
\* Stated as the absence of the state in which a reader is blocked for good
\* on a full pending channel with sc.mu held while the channel's Call waits
\* for sc.mu.
C1_NoCallBlockedForever == \A r \in Readers : ~StuckReader(r)

\* C2: a response handed to a waiting call carries the id of that call's own
\* request and answers that call's request; a reply whose id has no pending
\* entry reaches no call. The same for the daemon's sendRequest and the
\* responses of the LSP child.
C2_ReplyMatchesWaiter ==
    /\ \A c \in Calls :
         /\ (respCh[c] # <<>> /\ Head(respCh[c]).kind = "reply")
               => (Head(respCh[c]).id = callId[c] /\ Head(respCh[c]).for = c)
         /\ callOut[c] = "reply" => callGot[c] = c
    /\ \A i \in dropped : \A c \in Calls :
         callId[c] = i => (callOut[c] # "reply" /\ (respCh[c] = <<>> \/ Head(respCh[c]).kind = "lost"))
    /\ \A h \in Handlers :
         /\ hResp[h] # <<>> =>
               (Head(hResp[h]).id = hId[h] /\ Head(hResp[h]).h = h /\ Head(hResp[h]).n = hCount[h])
         /\ hOut[h] = "result" => (hGot[h].id = hId[h] /\ hGot[h].h = h)
         /\ hId[h] \in lateIds => (hResp[h] = <<>> /\ hGot[h] = NoResponse)

\* C2 witness: one call has returned with its own reply while the late reply
\* of a call that timed out was dropped.
C2_Witness ==
    \E c, d \in Calls :
        /\ callOut[c] = "reply" /\ callGot[c] = c /\ callPc[c] = "done"
        /\ callOut[d] = "timeout" /\ callId[d] \in dropped

\* C3: sc.pending holds only ids of calls in progress and none of a call that
\* has returned, whatever the reason of the return; the same for sm.pending
\* and the daemon's sendRequest.
C3_PendingOnlyInProgress ==
    /\ \A i \in DOMAIN scPending :
         /\ callId[scPending[i]] = i
         /\ callPc[scPending[i]] \in {"getconn", "write", "markbroken", "wait", "defer"}
    /\ \A c \in Calls : callPc[c] = "done" => callId[c] \notin DOMAIN scPending
    /\ (\A c \in Calls : callPc[c] \in {"idle", "done"}) => scPending = <<>>
    /\ \A i \in DOMAIN pending :
         /\ hId[pending[i]] = i
         /\ hPc[pending[i]] \in {"reqWrite", "reqWait", "reqDefer"}
    /\ (\A h \in Handlers : hPc[h] \in {"idle", "notify"}) => pending = <<>>

\* C3 witness: every call has returned, for different reasons, one of them
\* on its deadline, and sc.pending is empty.
C3_Witness ==
    /\ \A c \in Calls : callPc[c] = "done" /\ callId[c] # 0
    /\ \E c, d \in Calls : callOut[c] = "timeout" /\ callOut[d] \in {"connectionlost", "sendfailed"}
    /\ scPending = <<>>

\* C4: after a read error, every Call that has sent its request on the failed
\* connection and is still waiting gets the "connection lost" error. Stated
\* as the absence of the state in which failAllPending is blocked for good
\* before reaching the channel of such a call, which is then left to its
\* own deadline.
C4_WaitersFailOnReadError ==
    \A r \in Readers :
        ~ /\ rdPc[r] = "failBlocked" /\ StuckReader(r)
          /\ \E c \in rdTodo[r] :
                /\ callPc[c] = "wait" /\ respCh[c] = <<>>
                /\ callConn[c] = rdReader[r]

\* C5: once Close() has been called the client never again holds an open
\* connection.
C5_ClosedHoldsNoConnection ==
    scClosed => ~(scConn # 0 /\ connState[scConn] = "open")

(* ------------------- claims about the session daemon ------------------ *)

\* No HandleClient goroutine is inside a didOpen or didClose of URI u.
NoNotifyInProgress(u) == ~\E h \in Handlers : hPc[h] = "notify" /\ hUri[h] = u

\* C6: for didOpen requests for one URI with no didClose, on any connections
\* and in any interleaving, exactly one didOpen notification is written to
\* the LSP child, and every request but the first is answered already_open.
C6_ExactlyOneDidOpen ==
    \A u \in Uris : ~closeSeen[u] =>
        /\ openWrites[u] <= 1
        /\ firstOpens[u] <= 1
        /\ (openAnswered[u] > 0 /\ NoNotifyInProgress(u)) => openWrites[u] = 1

\* What does hold of didOpen: the statement of C6 as long as the child
\* accepts the write.
DidOpenOnceWhileChildRuns ==
    \A u \in Uris : ~closeSeen[u] =>
        /\ openWrites[u] <= 1
        /\ firstOpens[u] <= 1
        /\ (childAlive /\ openAnswered[u] > 0 /\ NoNotifyInProgress(u)) => openWrites[u] = 1

\* C7: whenever no API request is in progress, sm.openDocs is the set of URIs
\* whose last notification written to the child is didOpen. Stated for the
\* behaviours in which the child still runs, so that every write succeeded.
C7_OpenDocsMatchChild ==
    ((\A h \in Handlers : hPc[h] = "idle") /\ childAlive)
        => openDocs = {u \in Uris : childNote[u] = "didOpen"}

(* --------------- claims about status, gate and warm-up ---------------- *)

\* C8: the computed readiness is true only if at least one client is
\* connected and no client has a connection-level error, and with a
\* connected client and no such error it is true whether or not a client is
\* busy.
C8_ReadyIffConnectedNoConnError ==
    statusOut.state # "none" =>
        LET someConnected == \E s \in DOMAIN clients : clients[s].connected
            noConnError == \A s \in DOMAIN clients : ~IsConnError(clients[s])
        IN  /\ statusOut.ready => (someConnected /\ noConnError)
            /\ (someConnected /\ noConnError) => statusOut.ready

\* C8 witness: two clients, one of them busy, and the status is ready with
\* state "busy".
C8_Witness ==
    /\ statusOut.ready /\ statusOut.state = "busy"
    /\ Cardinality(DOMAIN clients) = 2
    /\ \E s \in DOMAIN clients : clients[s].active > 0

\* C9: with the concrete bridge the gate lets the tool run only if the
\* status is ready and either all clients are in session mode or the warm-up
\* is done without error; otherwise it returns a status payload.
C9_GatePassesOnlyReadyAndWarm ==
    [][ (bridgeKind = "concrete" /\ gPc # "done" /\ gPc' = "done") =>
            IF gOut' = "pass"
              THEN /\ \E s \in DOMAIN clients : clients[s].connected
                   /\ \A s \in DOMAIN clients : ~IsConnError(clients[s])
                   /\ \/ \A s \in DOMAIN clients : ServerConfigOf(clients[s]) = "session"
                      \/ (warmupDone /\ warmupErr = "")
              ELSE gOut' \in {"warming", "status"} ]_vars

\* C9 witness: the gate of the concrete bridge has let a tool run although
\* not all clients are in session mode, the warm-up being done.
C9_Witness ==
    /\ bridgeKind = "concrete" /\ gPc = "done" /\ gOut = "pass"
    /\ ~AllClientsInSessionMode(clients)
    /\ warmupDone

\* One step of the warm-up fields.
WarmupStep ==
    /\ (<<warmupRunning, warmupDone>>' # <<warmupRunning, warmupDone>>) =>
          \/ ~warmupRunning /\ ~warmupDone /\ warmupRunning' /\ ~warmupDone'
          \/ warmupRunning /\ ~warmupRunning' /\ warmupDone' /\ warmupErr' = ""
          \/ warmupRunning /\ ~warmupRunning' /\ ~warmupDone' /\ warmupErr' # ""
    /\ activeRuns' > activeRuns => (~warmupRunning /\ ~warmupDone)
    /\ warmupDone => (warmupDone' /\ activeRuns' = activeRuns)

\* C10: the warm-up state changes only from (not running, not done) to
\* running and from running to (done, no error) or (not done, error); it is
\* never running and done; at most one run executes at a time; once done no
\* call starts a run or clears done.
C10_WarmupTransitions ==
    /\ [](~(warmupRunning /\ warmupDone) /\ activeRuns <= 1 /\ (warmupRunning <=> activeRuns = 1))
    /\ [][WarmupStep]_vars

\* C10 witness: the warm-up is done, and StartWarmup was called again after
\* the throttle of the first attempt had expired.
C10_Witness ==
    /\ warmupDone /\ ~warmupRunning /\ activeRuns = 0
    /\ warmupLastAttempt > WarmupThrottle
(* ------------- claims about the child's error responses --------------- *)
\* C19: when the child answers a forwarded request with a JSON-RPC error,
\* the API caller is not answered with a successful result.
C19_ChildErrorIsAnError ==
    \A h \in Handlers :
        (hMethod[h] = "forward" /\ hPc[h] \in {"reqDefer", "idle"}
         /\ hPayload[h] = "errJSON" /\ hGot[h] # NoResponse)
        => hOut[h] # "result"

(* --------------------- claims about the call graph -------------------- *)
\* The nodes of the two trees: the tasks below the root tasks, each a child
\* of the node of its parent task; the children of both root tasks hang
\* under the one root node.
Nodes == {t \in DOMAIN tasks : t[2] # <<>>}
ParentNode(t) == IF Len(t[2]) = 1 THEN <<"root", <<>>>> ELSE ParentOf(t)
\* The symbols of the proper ancestors of a node, the root included.
AncestorSyms(t) == {Root} \cup {t[2][i] : i \in 1..(Len(t[2]) - 1)}
\* The tasks whose item has calls to expand.
Expanding ==
    {t \in DOMAIN tasks : ~tasks[t].isCycle /\ CallsOf(t[1], SymOf(t)) # {}}
DownB == <<"down", <<2>>>>
DownBA == <<"down", <<2, 1>>>>

\* C11: for the hierarchy A -> B -> A queried at A with depthDown = 10 and
\* maxNodes = 100 (and no timeout), the outgoing tree of the result has B as
\* the child of the root, B's only child is A marked isCycle, cyclesFound
\* is at least 1 and truncated is false.
C11_CycleQueryResult ==
    (returned /\ hierarchy = CycleGraph /\ ~ctxDone) =>
        /\ ChildrenOf(<<"down", <<>>>>) = {DownB}
        /\ ~tasks[DownB].isCycle
        /\ ChildrenOf(DownB) = {DownBA}
        /\ tasks[DownBA].isCycle
        /\ ChildrenOf(DownBA) = {}
        /\ cyclesFound >= 1
        /\ ~truncated

\* C12: in every result, each node marked isCycle has a proper ancestor on
\* its path to the root, the root included, with the same key.
C12_CycleNodeHasAncestor ==
    returned =>
        \A t \in Nodes : tasks[t].isCycle => SymOf(t) \in AncestorSyms(t)

\* C13: in every result, under every interleaving, no key is the key of two
\* non-cycle nodes under different parents.
C13_ExpandedAtMostOnce ==
    returned =>
        \A t, u \in Nodes :
            (/\ ~tasks[t].isCycle /\ ~tasks[u].isCycle
             /\ SymOf(t) = SymOf(u))
            => ParentNode(t) = ParentNode(u)

\* C14: the reported totalNodes exceeds maxNodes by at most the width of the
\* semaphore for each expansion, whatever the fan-out of the hierarchy.
C14_NodeCapExcessBounded ==
    returned =>
        nodeCount <= maxNodes + SemaphoreWidth * Cardinality(Expanding)

\* C15: when an expansion was cut off by the timeout, the depth cap or the
\* node cap, the result has truncated = true, and a reason that names the
\* timeout or the node cap names a cause that occurred.
C15_CutOffIsReported ==
    (returned /\ cutCauses # {}) =>
        /\ truncated
        /\ truncateReason = TimeoutReason => ctxDone
        /\ truncateReason = MaxNodesReason => nodeCount >= maxNodes

(* ------------------ claims about paths and file URIs ------------------ *)
\* The path an input names: the path of a file URI, or the input itself.
PlainPathOf(p) == IF HasPrefix(p, FileScheme) THEN FileURIToPath(p) ELSE Ok(p)
\* A normalized path is the root or lies beneath it.
Beneath(clean, root, fold) ==
    IF fold
    THEN EqualFold(clean, root) \/ hasPrefixFold(clean, root \o <<"/">>)
    ELSE clean = root \/ HasPrefix(clean, root \o <<"/">>)
InsideHostRoot ==
    /\ PlainPathOf(pathIn).ok
    /\ Beneath(normalizePathSeparators(PlainPathOf(pathIn).val),
               dpm.hostRoot, TRUE)
InsideContainerRoot ==
    /\ ~HasPrefix(pathIn, FileScheme)
    /\ Beneath(normalizePathSeparators(pathIn), dpm.containerRoot, FALSE)
AbsolutePathIn == HasPrefix(pathIn, <<"/">>) \/ IsWindowsAbsPath(pathIn)

\* C16: HostToContainer returns an error for every input whose normalized
\* path, with . and .. resolved, is neither the host root nor beneath it.
C16_OutsideHostRootRejected ==
    (pathOp = "HostToContainer" /\ pathPc >= 1 /\ ~InsideHostRoot)
        => ~pathMid.ok

\* C17: for an input inside the host root, plain or a file URI,
\* ContainerToHost(HostToContainer(p)) succeeds and names p up to the
\* separators and the case of letters; for an input inside the container
\* root HostToContainer(ContainerToHost(c)) succeeds and is c, normalized.
C17_MappingRoundTrip ==
    /\ (pathOp = "HostToContainer" /\ pathPc >= 1 /\ InsideHostRoot)
           => pathMid.ok
    /\ (pathOp = "HostToContainer" /\ pathPc = 2 /\ InsideHostRoot)
           => /\ pathEnd.ok
              /\ PlainPathOf(pathEnd.val).ok
              /\ EqualFold(PlainPathOf(pathEnd.val).val,
                           normalizePathSeparators(PlainPathOf(pathIn).val))
    /\ (pathOp = "ContainerToHost" /\ pathPc >= 1 /\ InsideContainerRoot)
           => pathMid.ok
    /\ (pathOp = "ContainerToHost" /\ pathPc = 2 /\ InsideContainerRoot)
           => /\ pathEnd.ok
              /\ pathEnd.val = normalizePathSeparators(pathIn)

\* C18: for every absolute path, POSIX or with a drive letter,
\* FileURIToPath(PathToFileURI(p)) succeeds and is p with forward slashes,
\* with or without . and .. resolved.
C18_FileURIRoundTrip ==
    /\ (pathOp = "PathToFileURI" /\ pathPc >= 1 /\ AbsolutePathIn)
           => pathMid.ok
    /\ (pathOp = "PathToFileURI" /\ pathPc = 2 /\ AbsolutePathIn)
           => /\ pathEnd.ok
              /\ pathEnd.val \in {ToSlashes(pathIn),
                                  normalizePathSeparators(pathIn)}

(* ------------------- claims about the client handler ------------------ *)
RepliesTo(i) == {r \in replies : r.re = i}
RepliedMessage == \E i \in 1..Len(received) : RepliesTo(i) # {}

\* C20: for every message of the server, whatever its method, the handler
\* sends exactly one reply if the message is a request (a success for the
\* methods it handles, the error -32601 for the others) and no reply if it
\* is a notification.
C20_OneReplyPerRequest ==
    \A i \in 1..Len(received) :
        IF received[i].notif THEN RepliesTo(i) = {}
        ELSE /\ Cardinality(RepliesTo(i)) = 1
             /\ \A r \in RepliesTo(i) :
                  IF received[i].method = "workspace/applyEdit"
                  THEN r.kind = "error" /\ r.code = CodeMethodNotFound
                  ELSE r.kind = "result"

(* ------------------------------ claim C25 ------------------------------ *)

\* The last error of a client matches a connection-level pattern.
MatchesConnPattern(c) ==
    \/ Contains(c.lastError, <<"connection", "is", "closed">>)
    \/ Contains(c.lastError, <<"already", "disconnected">>)
    \/ Contains(c.lastError, <<"EOF">>)

\* The state by precedence: error, then busy, then starting, then ready.
StateByPrecedence(anyConnError) ==
    LET anyBusy == \/ \E s \in DOMAIN clients : clients[s].active > 0
                   \/ statusOut.indexing = "indexing"
        anyStarting ==
            \/ \E s \in DOMAIN clients :
                  clients[s].status \in {"connecting", "uninitialized", "restarting"}
            \/ \A s \in DOMAIN clients : ~clients[s].connected
    IN  IF anyConnError THEN "error"
        ELSE IF anyBusy THEN "busy"
        ELSE IF anyStarting THEN "starting"
        ELSE "ready"

\* C25 as stated: the state is "error" if some client has the status
\* Disconnected or a last error matching a connection-level pattern, else
\* "busy" if some client has active progress or indexing is in progress,
\* else "starting" if some client is connecting, uninitialized or
\* restarting or no client is connected, else "ready".
C25_StateByStatus ==
    statusOut.state # "none" =>
        statusOut.state =
            StateByPrecedence(\E s \in DOMAIN clients :
                                 \/ clients[s].status = "disconnected"
                                 \/ MatchesConnPattern(clients[s]))

\* C25 as amended: the state is "error" also if some client is not
\* connected, whatever its status; the rest of the precedence is as stated.
C25_StateByStatusOrFlag ==
    statusOut.state # "none" =>
        statusOut.state =
            StateByPrecedence(\E s \in DOMAIN clients :
                                 \/ clients[s].status = "disconnected"
                                 \/ ~clients[s].connected
                                 \/ MatchesConnPattern(clients[s]))

\* C25 witness: two clients, one of them connecting, both connected and
\* without error or progress, and the state is "starting".
C25_Witness ==
    /\ statusOut.state = "starting"
    /\ Cardinality(DOMAIN clients) = 2
    /\ \E s \in DOMAIN clients : clients[s].status = "connecting"
    /\ \A s \in DOMAIN clients : clients[s].connected

(* ------------------------------ claim C26 ------------------------------ *)

\* The gate returns the status payload of a status that is not ready.
GateBlocksOnStatus == gPc = "final" /\ gOut' = "status"

\* C26 as stated: whenever the gate blocks a tool because the status is
\* still not ready after the polling period, whatever the state, the
\* payload includes retry_after_ms = 2000.
C26_BlockedAlwaysHasRetry ==
    [][GateBlocksOnStatus => gRetry' = 2000]_vars

\* C26 as amended: the payload includes retry_after_ms = 2000 when the
\* state is starting or busy, and no retry_after_ms when it is error.
C26_BlockedHasRetryUnlessError ==
    [][GateBlocksOnStatus =>
          LET state == BuildLSPStatus(clients).state
          IN  /\ state \in {"starting", "busy", "error"}
              /\ state \in {"starting", "busy"} => gRetry' = 2000
              /\ state = "error" => gRetry' = 0]_vars

\* C26 witness: the gate has polled to the end of the period without a
\* ready status and returns the status payload with retry_after_ms 2000.
C26_Witness ==
    gPc = "done" /\ gOut = "status" /\ gRetry = 2000 /\ gPolls = MaxPolls

(* --------------------------- claims C27 to C29 ------------------------- *)

\* A step starts a warm-up run (StartWarmup's goroutine or SyncWarmup).
WarmupRunStarts == activeRuns' > activeRuns

\* C27: no warm-up run is started while a run is in progress or less than
\* 10 s after the previous run finished.
C27_NoRunWhileRunningOrJustFinished ==
    [][WarmupRunStarts =>
          /\ ~warmupRunning
          /\ warmupFinishedAt = 0 \/ clock - warmupFinishedAt >= WarmupThrottle]_vars

\* A step begins an auto-connect attempt: StartAutoConnect spawns its
\* connect goroutine, or SyncAutoConnect starts connecting.
AutoConnectAttemptBegins ==
    \/ connectTasks' > connectTasks
    \/ syncPc = "idle" /\ syncPc' = "connecting"

\* C28: at least 5 s elapse between any two auto-connect attempts, of
\* either kind: no attempt begins less than 5 s after the previous one.
C28_FiveSecondsBetweenAttempts ==
    [][AutoConnectAttemptBegins =>
          autoConnectLastAttempt = 0
              \/ clock - autoConnectLastAttempt >= AutoConnectThrottle]_vars

\* C29: StartAutoConnect returns without waiting for a connection attempt
\* to complete: a call that has been made can always take its step, also
\* while a synchronous auto-connect is connecting.
C29_StartAutoConnectNeverWaits ==
    gPc = "autoConnect" => autoConnectMu = "free"

(* ------------------------------ claim C30 ------------------------------ *)

\* The keys of the tokens, the canonical string forms.
TokenKeys == {progressTokenKey(t) : t \in Tokens}

\* The kind the value of an update has, "" when it cannot be read.
KindSeen(i) == IF updates[i].marshals THEN updates[i].kind ELSE ""

\* The updates for a key that are begin, report or end events.
StreamOf(key) ==
    {i \in 1..Len(updates) :
        /\ progressTokenKey(updates[i].token) = key
        /\ KindSeen(i) \in {"begin", "report", "end"}}

\* The greatest element of a non-empty set of numbers.
Latest(S) == CHOOSE i \in S : \A j \in S : j <= i

\* C30: after any sequence of $/progress updates, a token is in the active
\* set if and only if the most recent begin, report or end event for it is
\* a begin or a report, and the last-seen event is the most recent event of
\* any kind (nil before the first event).
C30_ActiveIffLatestIsBeginOrReport ==
    /\ \A key \in TokenKeys :
          key \in DOMAIN active <=>
              /\ StreamOf(key) # {}
              /\ KindSeen(Latest(StreamOf(key))) \in {"begin", "report"}
    /\ DOMAIN active \subseteq TokenKeys
    /\ IF updates = <<>> THEN last = NoEvent
       ELSE /\ last.Time = Len(updates)
            /\ last.TokenKey = progressTokenKey(updates[Len(updates)].token)
            /\ KindSeen(Len(updates)) # "" => last.Kind = KindSeen(Len(updates))
            /\ KindSeen(Len(updates)) = "" => last.Kind = "unknown"

\* C30 witness: a token began, another one began and ended: the first is
\* active, the second is not, and the end event is the last-seen event.
C30_Witness ==
    /\ Len(updates) = 3
    /\ last.Kind = "end"
    /\ last.TokenKey \notin DOMAIN active
    /\ Cardinality(DOMAIN active) = 1
    /\ StreamOf(last.TokenKey) = {2, 3}

(* --------------------------- claims C21 to C24 ------------------------- *)

\* The handler of connection h has read a request and written its answer.
Answered(h) == hReq[h] # NoRequest /\ hSent[h] # NoLine

\* C21: a daemon API request whose method is not one of the methods the
\* daemon supports is answered with a JSON-RPC error whose code is -32601.
C21_UnknownMethodIsMethodNotFound ==
    \A h \in Handlers :
        (Answered(h) /\ handleAPIRequest(hReq[h].method) = "unknown")
            => (hSent[h].kind = "error" /\ hSent[h].code = CodeMethodNotFound)

\* The methods in use that are a textDocument/* method other than didOpen
\* and didClose, a callHierarchy/* method, workspace/symbol or
\* workspace/diagnostic.
ForwardedFamilies ==
    {"textDocument/hover", "textDocument/completion", "callHierarchy/incomingCalls",
     "workspace/symbol", "workspace/diagnostic"}

\* C22: every request for a method of these families is forwarded to the
\* LSP child as a request, and the result of the API response is the raw
\* result of the child's response to it.
C22_FamiliesAreForwarded ==
    \A h \in Handlers :
        hReq[h].method \in ForwardedFamilies =>
            /\ hMethod[h] = "forward"
            /\ hSent[h].kind = "result" =>
                  (hSent[h].result = "result" /\ hSent[h].reply.id = hId[h])

\* C23: each API response is written to the connection that sent the
\* request, carries that request's id, and contains the child's reply to
\* the internal request forwarded for it, also when the connections use
\* equal ids at the same time; a request answered without the child
\* carries no reply of the child.
C23_ResponseGoesToItsRequest ==
    \A h \in Handlers :
        Answered(h) =>
            /\ hSent[h].id = hReq[h].id
            /\ (hMethod[h] = "forward" /\ hSent[h].kind = "result") =>
                  hSent[h].reply = [id |-> hId[h], h |-> h, n |-> hCount[h] - 1]
            /\ (hMethod[h] # "forward" \/ hSent[h].kind = "error") =>
                  hSent[h].reply = NoResponse

\* C23 witness: two connections have each been answered the child's reply
\* to their own forwarded request, under the same API id and distinct
\* internal ids.
C23_Witness ==
    \E g, h \in Handlers :
        /\ g # h
        /\ Answered(g) /\ Answered(h)
        /\ hSent[g].kind = "result" /\ hSent[h].kind = "result"
        /\ hSent[g].id = hSent[h].id
        /\ hSent[g].reply.h = g /\ hSent[h].reply.h = h
        /\ hSent[g].reply.id # hSent[h].reply.id

\* The calls of the session client, and the handlers of the daemon, whose
\* request is in flight: registered and not yet returned.
CallsInFlight == {c \in Calls : callPc[c] \in {"getconn", "write", "markbroken", "wait"}}
HandlersInFlight == {h \in Handlers : hPc[h] \in {"reqWrite", "reqWait"}}

\* C24: the ids the session client and the daemon assign are strictly
\* increasing positive integers: every id assigned is greater than all ids
\* assigned before, so that no two requests in flight, and no two requests
\* written to one connection or held by the child, share an id, also with
\* concurrent callers and across reconnects.
C24_IdsIncreaseAndAreUnique ==
    /\ [](\A c, d \in CallsInFlight : callId[c] = callId[d] => c = d)
    /\ [](\A k \in Conns : \A i, j \in 1..Len(reqs[k]) :
              reqs[k][i].id = reqs[k][j].id => i = j)
    /\ [](\A g, h \in HandlersInFlight : hId[g] = hId[h] => g = h)
    /\ [](\A p, q \in childReqs : p.id = q.id => p = q)
    /\ [][/\ \A c \in Calls :
                callId'[c] # callId[c] =>
                    (callId'[c] > scReqID /\ callId'[c] > 0 /\ scReqID' = callId'[c])
          /\ \A h \in Handlers :
                hId'[h] # hId[h] =>
                    (hId'[h] > requestID /\ hId'[h] > 0 /\ requestID' = hId'[h])
          /\ scReqID' >= scReqID /\ requestID' >= requestID]_vars

\* C24 witness: two calls wait for their replies on different connections,
\* the second registered after a reconnect, with different ids.
C24_Witness ==
    \E c, d \in Calls :
        /\ callPc[c] = "wait" /\ callPc[d] = "wait"
        /\ callConn[c] # callConn[d]
        /\ callId[c] < callId[d]
        /\ \E i \in 1..Len(reqs[callConn[d]]) : reqs[callConn[d]][i].id = callId[d]

(* ---------------------------------------------------------------------- *)
(* C31. Updates without a recognised kind.                                *)
(* ---------------------------------------------------------------------- *)

\* The parameters of an update whose value cannot be marshalled or whose
\* kind is none of begin, report, end.
NoRecognisedKind(params) ==
    ~params.marshals \/ params.kind \notin {"begin", "report", "end"}

\* C31: a progress update whose payload is malformed or carries no
\* recognised kind leaves an "unknown" event as the last-seen event and
\* leaves the active map as it was, its tokens and the event stored for
\* each of them.
C31_UnrecognisedUpdateLeavesActive ==
    [][(/\ Len(updates') = Len(updates) + 1
        /\ NoRecognisedKind(updates'[Len(updates')]))
       => (last'.Kind = "unknown" /\ active' = active)]_vars

(* ---------------------------------------------------------------------- *)
(* C32. Requests of the LSP child to the daemon.                          *)
(* ---------------------------------------------------------------------- *)

\* C32: every request the LSP child has sent and the daemon's reader has
\* dealt with has a reply, a result or a method-not-found error, written
\* to the child.
C32_ServerRequestsAnswered ==
    \A r \in srvRequests :
        \E a \in srvReplies :
            /\ a.id = r.id
            /\ a.kind = "result" \/ (a.kind = "error" /\ a.code = CodeMethodNotFound)

(* ---------------------------------------------------------------------- *)
(* C33. Reader goroutines of a session client.                            *)
(* ---------------------------------------------------------------------- *)

\* The readResponses goroutines that are in reader.ReadString (line 438),
\* on the connection k.
LiveReaders(k) == {r \in Readers : rdPc[r] = "read" /\ rdReader[r] = k}

\* C33: at most one readResponses goroutine of a session client reads
\* responses at any time, whether started by Connect, kept by a reader's own
\* reconnect or started by a Call's reconnect; in particular no two of them
\* read from the same connection.
C33_AtMostOneReader == \A k \in Conns : Cardinality(LiveReaders(k)) <= 1

(* ---------------------------------------------------------------------- *)
(* C34. The per-call loops after the timeout.                             *)
(* ---------------------------------------------------------------------- *)

\* C34: once the context of the call-graph operation is done, the loops
\* over the calls spawn no further expansion goroutine, so that no node is
\* created for the calls that remain.
C34_NoSpawnAfterTimeout ==
    [][ctxDone => DOMAIN tasks' = DOMAIN tasks]_vars

(* ---------------------------------------------------------------------- *)
(* C35. The daemon serves only after a successful initialize.             *)
(* ---------------------------------------------------------------------- *)

\* The API is served: main is in its accept loop.
ApiServed == startPc = "accepting" \/ accepted > 0

\* C35: the session is marked initialized, the initialized notification
\* is sent and the API is served only if the child has answered initialize
\* with a result; after an error answer, or with no answer within 60 s,
\* none of the three ever happens.
C35_ServesOnlyAfterInitializeResult ==
    (smInitialized \/ "initialized" \in childGot \/ ApiServed)
        => childAnswer = "result"

\* The part of C35 about a missing answer.
NoAnswerNeverServes ==
    childAnswer = "none" => ~(smInitialized \/ "initialized" \in childGot \/ ApiServed)

(* ---------------------------------------------------------------------- *)
(* C36. Connect and the disconnect monitor of TCP and WebSocket clients.  *)
(* ---------------------------------------------------------------------- *)

\* C36: when the carrier has disconnected after the JSON-RPC connection
\* was created, and both the connect call and the monitor have run, the
\* status of the client is Disconnected.
C36_DisconnectedAfterBothRan ==
    (lcPc = "done" /\ monPc = "done") => lcStatus = "disconnected"

(* ---------------------------------------------------------------------- *)
(* C37. The answer to didOpen and the notification to the child.          *)
(* ---------------------------------------------------------------------- *)

\* C37: when a textDocument/didOpen request has been answered with a
\* result, null or already_open, a didOpen notification for its URI has
\* been written to the child.
C37_AnsweredOpenWasWritten ==
    \A h \in Handlers :
        (/\ hReq[h].method = "textDocument/didOpen"
         /\ hSent[h].kind = "result")
            => openWrites[hUri[h]] >= 1

(* ---------------------------------------------------------------------- *)
(* C38. A session client without a connection is not counted.             *)
(* ---------------------------------------------------------------------- *)

\* sa.connected of the adapter of the session client: set by Connect
\* (part_008:38-45), cleared by Close only (part_008:48-51).
AdapterConnected == connectPc = "ok" /\ ~scClosed

\* The client map of a bridge whose only client is the session client, and
\* the status computed from it. SessionClient.IsConnected is sc.conn != nil.
SessionOnly == [s \in {1} |-> GetMetrics(AdapterConnected, scConn # 0)]
SessionOnlyStatus == BuildLSPStatus(SessionOnly)

\* C38: while the session client that was connected holds no connection
\* and is not closed, it is not counted as connected: the status is not
\* ready and the gate does not pass on it.
C38_LostSessionNotCounted ==
    (AdapterConnected /\ scConn = 0 /\ scMu = 0)
        => /\ SessionOnlyStatus.connected = 0
           /\ ~SessionOnlyStatus.ready
           /\ ~(SessionOnlyStatus.ready /\ GateMayPass(SessionOnly))

(* ---------------------------------------------------------------------- *)
(* C39. The tree builds terminate.                                        *)
(* ---------------------------------------------------------------------- *)

\* Every goroutine of the builder has finished and the tool has returned.
AllTasksDone == returned /\ \A t \in DOMAIN tasks : tasks[t].pc = "done"

\* C39: for every hierarchy and every setting of the bounds, both tree
\* builds terminate: every spawned goroutine finishes, none waits for ever
\* for a slot of a semaphore or for its children, and the tool returns.
C39_BuildsTerminate == <>AllTasksDone

\* A cyclic hierarchy whose build has ended, a revisit having been met.
C39_Witness ==
    /\ AllTasksDone
    /\ hierarchy = CycleGraph
    /\ cyclesFound > 0

=============================================================================
